---- MODULE Spec2Model ----
(***************************************************************************)
(* A model of sociclaw's secure external job client                        *)
(* (src/sociclaw/scripts/image_provider_client.py).                        *)
(*                                                                         *)
(* Part 1: the Image Input Resolver.  A client is constructed from the     *)
(* process environment (working directory, symlinks, SOCICLAW_* settings)  *)
(* and then resolves one image reference: inline data, a local path, a     *)
(* file:// URI or a remote URL.  Filesystem reads and HTTP requests are    *)
(* recorded so that what the resolver touched can be stated.               *)
(***************************************************************************)
EXTENDS Integers, Sequences, FiniteSets, TLC

VARIABLES
    env,        \* the process environment the client was constructed in
    client,     \* the ImageProviderClient fields set by __init__
    pc,         \* where the _resolve_image_data_url call stands
    ref,        \* the image reference being resolved
    result,     \* what the call returned (or that it raised)
    reads,      \* canonical paths whose bytes were read (read_bytes)
    requests,   \* the URLs an HTTP GET was issued to, in order
    resp,       \* the response being consumed (status, header, body left)
    buf,        \* chunks buffered so far and their running total
    rt,         \* one request_with_retry call (src/sociclaw/scripts/http_retry.py)
    job,        \* one ImageProviderClient.generate_image call
    now,        \* time.time(), in seconds
    gen,        \* one ImageGenerator.generate_image call
    threads,    \* generate_image calls of concurrent threads, in _save_image
    files       \* the output directory they share: file name -> content

\* the variables the Image Input Resolver leaves alone
\* the variables of the concurrent _save_image calls
saveVars == <<threads, files>>

outsideResolver == <<rt, job, now, gen, saveVars>>

\* the variables of the Image Input Resolver
resolverVars == <<env, client, pc, ref, result, reads, requests, resp, buf>>

\* the variables request_with_retry leaves alone
outsideRetry == <<resolverVars, job, now, gen, saveVars>>

vars == <<env, client, pc, ref, result, reads, requests, resp, buf, rt, job, now, gen,
          threads, files>>

----------------------------------------------------------------------------
(* Bounds of the model *)

\* SOCICLAW_IMAGE_INPUT_MAX_BYTES, scaled down; file and body sizes are
\* defined relative to it so that the boundary cases stay in the model.
MaxPayloadBytes == 10
\* longest SOCICLAW_ALLOWED_IMAGE_INPUT_DIRS list (comma-separated items)
MaxConfigured == 1
\* redirect hops a server may answer with before the final response
MaxHops == 2
\* largest SOCICLAW_IMAGE_URL_MAX_REDIRECTS drawn
MaxRedirectSetting == 1
\* largest max_retries a request_with_retry call is made with
MaxRetries == 2
\* largest SOCICLAW_HTTP_MAX_RETRIES a job client is constructed with
MaxClientRetries == 1
\* largest timeout_seconds of a wait_for_job call
MaxTimeout == 2
\* largest poll_interval_seconds of a wait_for_job call
MaxPollInterval == 1
\* most get_job calls of one wait_for_job call before the clock advances
\* to the deadline
MaxPolls == 3
\* largest max_retries an ImageGenerator is constructed with
MaxGeneratorRetries == 2
\* random.uniform(0, b) is sampled at b * u / JitterSteps, u in 0..JitterSteps
JitterSteps == 2

----------------------------------------------------------------------------
(* Generic helpers *)

RECURSIVE Concat(_)
Concat(ss) == IF ss = <<>> THEN <<>> ELSE Head(ss) \o Concat(Tail(ss))

IsPrefix(p, s) == Len(p) <= Len(s) /\ SubSeq(s, 1, Len(p)) = p

IsSuffix(p, s) == Len(p) <= Len(s) /\ SubSeq(s, Len(s) - Len(p) + 1, Len(s)) = p

\* list(dict.fromkeys(xs)): first occurrences, order kept
RECURSIVE Unique(_, _)
Unique(xs, acc) ==
    IF xs = <<>> THEN acc
    ELSE IF \E i \in 1..Len(acc) : acc[i] = Head(xs)
         THEN Unique(Tail(xs), acc)
         ELSE Unique(Tail(xs), Append(acc, Head(xs)))

SeqsUpTo(S, n) == UNION {[1..k -> S] : k \in 0..n}

----------------------------------------------------------------------------
(* The filesystem.  A path is the sequence of its segments below "/". *)

Root == <<>>

PNGMagic == <<137, 80, 78, 71, 13, 10, 26, 10>>
JPEGMagic == <<255, 216, 255>>

\* n filler bytes
Filler(n) == [i \in 1..n |-> (i * 7) % 256]

\* regular files and their bytes
FileBytes(p) ==
    CASE p = <<"w", "in", "a.png">> -> PNGMagic \o <<1>>
      [] p = <<"w", "in", "max.png">> -> PNGMagic \o Filler(MaxPayloadBytes - 8)
      [] p = <<"w", "in", "big.png">> -> PNGMagic \o Filler(MaxPayloadBytes - 7)
      [] p = <<"w", "in", "j.bin">> -> JPEGMagic \o <<7, 7>>
      [] p = <<"w", "in", "t.txt">> -> <<104, 105>>
      [] p = <<"w", "in", "n.png">> -> <<104, 105>>
      [] p = <<"w", "in", "e.png">> -> <<>>
      [] p = <<"w", "s.png">> -> PNGMagic \o <<2>>
      [] p = <<"o", "b.png">> -> PNGMagic \o <<3>>
      [] p = <<"passwd">> -> <<114, 111, 111, 116>>

Files ==
    { <<"w", "in", "a.png">>, <<"w", "in", "max.png">>, <<"w", "in", "big.png">>,
      <<"w", "in", "j.bin">>, <<"w", "in", "t.txt">>, <<"w", "in", "n.png">>,
      <<"w", "in", "e.png">>, <<"w", "s.png">>, <<"o", "b.png">>, <<"passwd">> }

\* places where the environment may have put a symbolic link; each maps to
\* its (canonical) target or to NoLink
NoLink == <<"-">>
LinkSites == { <<"w", ".sociclaw">>, <<"w", "l">> }
LinkTargets == { Root, <<"o">>, <<"w", "in">> }

IsLink(links, p) == p \in LinkSites /\ links[p] # NoLink

\* Path.resolve() (non-strict) of the segments segs appended to the
\* canonical directory cur: ".." pops, a symlink is replaced by its target,
\* what does not exist is kept lexically.
RECURSIVE Realpath(_, _, _)
Realpath(links, cur, segs) ==
    IF segs = <<>> THEN cur
    ELSE LET s == Head(segs)
             next == IF s = ".." THEN (IF cur = Root THEN Root
                                       ELSE SubSeq(cur, 1, Len(cur) - 1))
                     ELSE IF s = "." THEN cur
                     ELSE IF IsLink(links, Append(cur, s)) THEN links[Append(cur, s)]
                     ELSE Append(cur, s)
         IN Realpath(links, next, Tail(segs))

\* Path.is_file() of a canonical path
IsFile(p) == p \in Files

\* PurePath.parent
Parent(p) == IF p = Root THEN Root ELSE SubSeq(p, 1, Len(p) - 1)

----------------------------------------------------------------------------
(* Allowed local roots: ImageProviderClient._resolve_allowed_roots *)

\* One comma-separated item of SOCICLAW_ALLOWED_IMAGE_INPUT_DIRS.
\* blank: whitespace only; abs: begins with "/"; segs: its segments.
DirItem(blank, abs, segs) == [blank |-> blank, abs |-> abs, segs |-> segs]

\* candidate.resolve() of one configured item: absolute as such, relative
\* joined to base
ItemResolved(e, item) ==
    IF item.abs THEN Realpath(e.links, Root, item.segs)
    ELSE Realpath(e.links, Root, e.cwd \o item.segs)

\* the loop over configured.split(","): blank items are skipped, absolute
\* ones unless the opt-in is set, and filesystem roots always
RECURSIVE ConfiguredRoots(_, _)
ConfiguredRoots(e, items) ==
    IF items = <<>> THEN <<>>
    ELSE LET item == Head(items)
             rest == ConfiguredRoots(e, Tail(items))
             resolved == ItemResolved(e, item)
         IN IF item.blank THEN rest
            ELSE IF item.abs /\ ~e.allow_absolute THEN rest
            ELSE IF Parent(resolved) = resolved THEN rest
            ELSE <<resolved>> \o rest

DefaultRoots(e) == <<Append(e.cwd, ".sociclaw"), Append(e.cwd, ".tmp")>>

ResolveAllowedRoots(e) ==
    LET configured == ConfiguredRoots(e, e.dirs)
        candidate_roots == IF e.dirs # <<>> /\ configured # <<>>
                           THEN configured ELSE DefaultRoots(e)
        resolved == [i \in 1..Len(candidate_roots) |->
                        Realpath(e.links, Root, candidate_roots[i])]
    IN Unique(resolved, <<>>)

\* ImageProviderClient._is_allowed_path: candidate.relative_to(root)
\* succeeds for some root
IsAllowedPath(roots, candidate) ==
    \E i \in 1..Len(roots) : IsPrefix(roots[i], candidate)

----------------------------------------------------------------------------
(* Host names are sequences of characters. *)

LowerChar(c) ==
    CASE c = "A" -> "a"
      [] c = "B" -> "b"
      [] c = "C" -> "c"
      [] c = "D" -> "d"
      [] c = "E" -> "e"
      [] c = "F" -> "f"
      [] c = "G" -> "g"
      [] c = "H" -> "h"
      [] c = "I" -> "i"
      [] c = "J" -> "j"
      [] c = "K" -> "k"
      [] c = "L" -> "l"
      [] c = "M" -> "m"
      [] c = "N" -> "n"
      [] c = "O" -> "o"
      [] c = "P" -> "p"
      [] c = "Q" -> "q"
      [] c = "R" -> "r"
      [] c = "S" -> "s"
      [] c = "T" -> "t"
      [] c = "U" -> "u"
      [] c = "V" -> "v"
      [] c = "W" -> "w"
      [] c = "X" -> "x"
      [] c = "Y" -> "y"
      [] c = "Z" -> "z"
      [] OTHER -> c

\* str.lower()
Lower(s) == [i \in 1..Len(s) |-> LowerChar(s[i])]

\* str.strip()
RECURSIVE LStrip(_)
LStrip(s) == IF s # <<>> /\ Head(s) = " " THEN LStrip(Tail(s)) ELSE s
RECURSIVE RStrip(_)
RStrip(s) == IF s # <<>> /\ s[Len(s)] = " " THEN RStrip(SubSeq(s, 1, Len(s) - 1)) ELSE s
Strip(s) == RStrip(LStrip(s))

\* str.rstrip(".")
RECURSIVE RStripDots(_)
RStripDots(s) ==
    IF s # <<>> /\ s[Len(s)] = "." THEN RStripDots(SubSeq(s, 1, Len(s) - 1)) ELSE s

\* ImageProviderClient._resolve_allowed_url_hosts, from the comma-separated
\* items of SOCICLAW_ALLOWED_IMAGE_URL_HOSTS
ResolveAllowedUrlHosts(raw) ==
    LET norm == [i \in 1..Len(raw) |-> RStripDots(Lower(Strip(raw[i])))]
        items == SelectSeq(norm, LAMBDA v : v # <<>>)
    IN Unique(items, <<>>)

\* one pattern of the allowlist against the normalized host
PatternMatches(pattern, normalized) ==
    IF pattern = <<"*">> THEN TRUE
    ELSE IF IsPrefix(<<"*", ".">>, pattern)
         THEN LET base == SubSeq(pattern, 3, Len(pattern))
              IN normalized = base \/ IsSuffix(<<".">> \o base, normalized)
         ELSE normalized = pattern

\* Mutant: an empty allowlist read as "allow every host".
HostMatchesAllowlistOpen(allowed, host) ==
    LET normalized == RStripDots(Lower(Strip(host)))
    IN IF normalized = <<>> THEN FALSE
       ELSE allowed = <<>>
            \/ \E i \in 1..Len(allowed) : PatternMatches(allowed[i], normalized)

\* ImageProviderClient._host_matches_allowlist
HostMatchesAllowlist(allowed, host) ==
    LET normalized == RStripDots(Lower(Strip(host)))
    IN IF normalized = <<>> \/ allowed = <<>> THEN FALSE
       ELSE \E i \in 1..Len(allowed) : PatternMatches(allowed[i], normalized)

----------------------------------------------------------------------------
(* URLs and the remote-URL checks *)

\* a parsed reference URL: scheme, the host part of the netloc, the last
\* path segment
Url(scheme, host, name) == [scheme |-> scheme, host |-> host, name |-> name]

Contains(s, c) == \E i \in 1..Len(s) : s[i] = c

\* urllib.parse.urlparse raises ValueError ("Invalid IPv6 URL") when the
\* netloc has one bracket without the other
UrlParseRaises(host) == Contains(host, "[") # Contains(host, "]")

\* ParseResult.hostname: brackets of an IPv6 literal removed, lower-cased
Hostname(host) ==
    IF Len(host) >= 2 /\ Head(host) = "[" /\ host[Len(host)] = "]"
    THEN Lower(SubSeq(host, 2, Len(host) - 1))
    ELSE Lower(host)

\* str.split(sep) on a sequence of characters
RECURSIVE Split(_, _, _)
Split(s, sep, cur) ==
    IF s = <<>> THEN <<cur>>
    ELSE IF Head(s) = sep THEN <<cur>> \o Split(Tail(s), sep, <<>>)
    ELSE Split(Tail(s), sep, Append(cur, Head(s)))

Digits == {"0", "1", "2", "3", "4", "5", "6", "7", "8", "9"}

DigitVal(c) ==
    CASE c = "0" -> 0 [] c = "1" -> 1 [] c = "2" -> 2 [] c = "3" -> 3
      [] c = "4" -> 4 [] c = "5" -> 5 [] c = "6" -> 6 [] c = "7" -> 7
      [] c = "8" -> 8 [] c = "9" -> 9

RECURSIVE DecVal(_, _)
DecVal(s, acc) == IF s = <<>> THEN acc ELSE DecVal(Tail(s), acc * 10 + DigitVal(Head(s)))

\* one octet of a dotted quad as ipaddress.IPv4Address accepts it: one to
\* three decimal digits, no leading zero, at most 255
IsOctet(g) ==
    /\ Len(g) \in 1..3
    /\ \A i \in 1..Len(g) : g[i] \in Digits
    /\ (Len(g) > 1 => g[1] # "0")
    /\ DecVal(g, 0) <= 255

\* ipaddress.ip_address(host) succeeds with an IPv4 address
IsIPv4(host) ==
    LET groups == Split(host, ".", <<>>)
    IN Len(groups) = 4 /\ \A i \in 1..4 : IsOctet(groups[i])

Octets(host) ==
    LET groups == Split(host, ".", <<>>)
    IN [i \in 1..4 |-> DecVal(groups[i], 0)]

\* is_private or is_loopback or is_link_local or is_reserved or
\* is_multicast or is_unspecified, of an IPv4 address
BlockedIPv4(o) ==
    \/ o[1] = 0                                   \* 0.0.0.0/8, unspecified
    \/ o[1] = 10                                  \* 10.0.0.0/8
    \/ o[1] = 127                                 \* loopback
    \/ (o[1] = 169 /\ o[2] = 254)                 \* link-local
    \/ (o[1] = 172 /\ o[2] \in 16..31)            \* 172.16.0.0/12
    \/ (o[1] = 192 /\ o[2] = 168)                 \* 192.168.0.0/16
    \/ (o[1] = 192 /\ o[2] = 0 /\ o[3] = 2)       \* 192.0.2.0/24
    \/ (o[1] = 198 /\ o[2] \in 18..19)            \* 198.18.0.0/15
    \/ (o[1] = 198 /\ o[2] = 51 /\ o[3] = 100)    \* 198.51.100.0/24
    \/ (o[1] = 203 /\ o[2] = 0 /\ o[3] = 113)     \* 203.0.113.0/24
    \/ o[1] \in 224..239                          \* multicast
    \/ o[1] >= 240                                \* reserved, broadcast

\* the IPv6 literals of the model: ::1 (loopback) and :: (unspecified)
BlockedIPv6(h) == h \in { <<":", ":", "1">>, <<":", ":">> }

\* the IP-literal block of _is_allowed_remote_image_url
IsBlockedIpLiteral(h) ==
    \/ (IsIPv4(h) /\ BlockedIPv4(Octets(h)))
    \/ BlockedIPv6(h)

Localhost == <<"l", "o", "c", "a", "l", "h", "o", "s", "t">>
ZeroAddr == <<"0", ".", "0", ".", "0", ".", "0">>
DotLocal == <<".", "l", "o", "c", "a", "l">>

\* the host checks that do not look at the allowlist
IsBlockedHost(h) ==
    \/ h = <<>>
    \/ h \in {Localhost, ZeroAddr}
    \/ IsSuffix(DotLocal, h)
    \/ IsBlockedIpLiteral(h)

\* ImageProviderClient._is_allowed_remote_image_url
IsAllowedRemoteImageUrl(allowed, u) ==
    IF UrlParseRaises(u.host) THEN FALSE
    ELSE IF u.scheme # "https" THEN FALSE
    ELSE LET host == RStripDots(Lower(Strip(Hostname(u.host))))
         IN IF IsBlockedHost(host) THEN FALSE
            ELSE HostMatchesAllowlist(allowed, host)

----------------------------------------------------------------------------
(* Content types, sniffing, base64 and the inline representation *)

\* a media type "major/minor"; NoType is the empty string / None
Mime(major, minor) == [major |-> major, minor |-> minor]
NoType == Mime("", "")

\* a Content-Type header as sent: the major type possibly in upper case,
\* possibly followed by ";parameters"
Header(major, minor, params) == [major |-> major, minor |-> minor, params |-> params]

LowerWord(w) == CASE w = "IMAGE" -> "image" [] w = "TEXT" -> "text" [] OTHER -> w

\* value.split(";")[0].strip().lower()
MainType(h) == Mime(LowerWord(h.major), h.minor)

\* str.startswith("image/")
IsImageType(ct) == ct.major = "image"

\* ImageProviderClient._sniff_image_type
SniffImageType(data) ==
    IF data = <<>> THEN ""
    ELSE IF IsPrefix(PNGMagic, data) THEN "png"
    ELSE IF IsPrefix(JPEGMagic, data) THEN "jpeg"
    ELSE IF IsPrefix(<<71, 73, 70, 56, 55, 97>>, data)
            \/ IsPrefix(<<71, 73, 70, 56, 57, 97>>, data) THEN "gif"
    ELSE IF Len(data) >= 12 /\ SubSeq(data, 1, 4) = <<82, 73, 70, 70>>
            /\ SubSeq(data, 9, 12) = <<87, 69, 66, 80>> THEN "webp"
    ELSE IF Len(data) >= 2 /\ SubSeq(data, 1, 2) = <<66, 77>> THEN "bmp"
    ELSE IF Len(data) >= 4 /\ (SubSeq(data, 1, 4) = <<77, 77, 0, 42>>
                               \/ SubSeq(data, 1, 4) = <<73, 73, 42, 0>>) THEN "tiff"
    ELSE ""

\* mimetypes.guess_type(source_hint)[0], by the extension of the last segment
GuessByName(name) ==
    CASE name \in {"a.png", "max.png", "big.png", "n.png", "e.png", "s.png",
                   "b.png", "x.png"} -> Mime("image", "png")
      [] name \in {"t.txt"} -> Mime("text", "plain")
      [] OTHER -> NoType

\* ImageProviderClient._guess_image_content_type
GuessImageContentType(data, source_hint, header_hint) ==
    IF IsImageType(header_hint) THEN header_hint
    ELSE IF SniffImageType(data) # "" THEN Mime("image", SniffImageType(data))
    ELSE IF IsImageType(GuessByName(source_hint)) THEN GuessByName(source_hint)
    ELSE NoType

\* base64.b64encode: three bytes make four sextets; a last group of one or
\* two bytes is zero-filled and padded with "=" (written 64)
Pad == 64
RECURSIVE B64Encode(_)
B64Encode(data) ==
    IF data = <<>> THEN <<>>
    ELSE IF Len(data) = 1
         THEN << data[1] \div 4, (data[1] % 4) * 16, Pad, Pad >>
    ELSE IF Len(data) = 2
         THEN << data[1] \div 4, (data[1] % 4) * 16 + data[2] \div 16,
                 (data[2] % 16) * 4, Pad >>
    ELSE << data[1] \div 4, (data[1] % 4) * 16 + data[2] \div 16,
            (data[2] % 16) * 4 + data[3] \div 64, data[3] % 64 >>
         \o B64Encode(SubSeq(data, 4, Len(data)))

\* what _resolve_image_data_url returns: None, a data URL
\* "data:<mime>;base64,<payload>", or an exception that escaped
NoneResult == [kind |-> "none", mime |-> NoType, payload |-> <<>>]
DataUrl(ct, payload) == [kind |-> "data", mime |-> ct, payload |-> payload]
Raised == [kind |-> "raised", mime |-> NoType, payload |-> <<>>]

\* Mutant: the size bound off by one (">=" for ">").
BuildImageDataUrlStrict(max_payload_bytes, data, content_type_hint) ==
    IF data = <<>> THEN NoneResult
    ELSE IF Len(data) >= max_payload_bytes THEN NoneResult
    ELSE IF ~IsImageType(content_type_hint) THEN NoneResult
    ELSE DataUrl(content_type_hint, B64Encode(data))

\* Mutant: the content type is not checked before encoding.
BuildImageDataUrlAnyType(max_payload_bytes, data, content_type_hint) ==
    IF data = <<>> THEN NoneResult
    ELSE IF Len(data) > max_payload_bytes THEN NoneResult
    ELSE DataUrl(content_type_hint, B64Encode(data))

\* ImageProviderClient._build_image_data_url
BuildImageDataUrl(max_payload_bytes, data, content_type_hint) ==
    IF data = <<>> THEN NoneResult
    ELSE IF Len(data) > max_payload_bytes THEN NoneResult
    ELSE IF ~IsImageType(content_type_hint) THEN NoneResult
    ELSE DataUrl(content_type_hint, B64Encode(data))

----------------------------------------------------------------------------
(* Image references *)

\* form: "empty" (blank string), "inline" (starts with "data:image/"),
\* "path" (a plain path), "fileuri" (file://<host>/<segs>), "url"
\* (<scheme>://<host>/<name>).  segs are the path's segments as written.
Ref(form, abs, segs, scheme, host, name, data) ==
    [form |-> form, abs |-> abs, segs |-> segs, scheme |-> scheme,
     host |-> host, name |-> name, data |-> data]

EmptyRef == Ref("empty", FALSE, <<>>, "", <<>>, "", NoneResult)

\* a reference of whitespace only: a true value for "if image_url:" (line
\* 105) and empty once stripped (lines 163-165)
BlankRef == Ref("blank", FALSE, <<>>, "", <<>>, "", NoneResult)

InlineRef(d) == Ref("inline", FALSE, <<"data:image">>, "data", <<>>, "", d)
PathRef(abs, segs) == Ref("path", abs, segs, "", <<>>, "", NoneResult)
FileUriRef(host, segs) == Ref("fileuri", TRUE, segs, "file", host, "", NoneResult)
\* read as a path, "https://h/x.png" is the relative path https:/h/x.png
UrlRef(scheme, host, name) ==
    Ref("url", FALSE, <<scheme \o ":", "host", name>>, scheme, host, name, NoneResult)

\* urllib.parse.unquote of one segment
Unquote(seg) == IF seg = "%2e%2e" THEN ".." ELSE seg

\* a path with an embedded NUL byte: os.lstat raises ValueError
NulSeg == "a\\0b"

HostAB == <<"a", ".", "b">>
HostUpper == <<"A", ".", "B", ".">>
HostNoDot == <<"b", "a", ".", "b">>
HostSub == <<"c", ".", "a", ".", "b">>
HostEvil == <<"e", ".", "b">>
HostPrinter == <<"x">> \o DotLocal
HostLocalDot == Localhost \o <<".">>
IpPrivate == <<"1", "0", ".", "0", ".", "0", ".", "1">>
IpLoopback == <<"1", "2", "7", ".", "0", ".", "0", ".", "1">>
IpLinkLocal == <<"1", "6", "9", ".", "2", "5", "4", ".", "1", ".", "1">>
IpPublic == <<"8", ".", "8", ".", "8", ".", "8">>
Ip6Loopback == <<"[", ":", ":", "1", "]">>
HostBracket == <<"[", "a">>

TinyPng == DataUrl(Mime("image", "png"), <<0, 0, 0, 0>>)

\* a whitespace character written after the payload of a data URL (65;
\* the payload's own characters are 0..64)
Whitespace == 65

\* the mutant of StripDataUrl that strips nothing
StripDataUrlKeepsAll(d) == d

\* line 163: str.strip() of a reference that starts with "data:image/":
\* whitespace after the payload is dropped
RECURSIVE StripDataUrl(_)
StripDataUrl(d) ==
    IF d.payload # <<>> /\ d.payload[Len(d.payload)] = Whitespace
    THEN StripDataUrl([d EXCEPT !.payload = SubSeq(d.payload, 1, Len(d.payload) - 1)])
    ELSE d

\* inline references: a well-formed one, one followed by a space and a
\* newline, and one of an unknown image type whose payload is beyond every
\* size limit
InlineRefs ==
    { InlineRef(TinyPng),
      InlineRef(DataUrl(Mime("image", "png"), <<0, 0, 0, 0, Whitespace, Whitespace>>)),
      InlineRef(DataUrl(Mime("image", "x"), [i \in 1..(2 * MaxPayloadBytes) |-> 0])) }

LocalRefs ==
    { PathRef(TRUE, <<"w", "in", "a.png">>),
      PathRef(FALSE, <<"in", "a.png">>),
      PathRef(TRUE, <<"w", "in", "max.png">>),
      PathRef(TRUE, <<"w", "in", "big.png">>),
      PathRef(TRUE, <<"w", "in", "j.bin">>),
      PathRef(TRUE, <<"w", "in", "t.txt">>),
      PathRef(TRUE, <<"w", "in", "n.png">>),
      PathRef(TRUE, <<"w", "in", "e.png">>),
      PathRef(TRUE, <<"w", "in", "zz.png">>),
      PathRef(TRUE, <<"w", "in">>),
      PathRef(TRUE, <<"w", "s.png">>),
      PathRef(TRUE, <<"o", "b.png">>),
      PathRef(TRUE, <<"passwd">>),
      PathRef(FALSE, <<"in", "..", "..", "o", "b.png">>),
      PathRef(TRUE, <<"w", "in", "..", "s.png">>),
      PathRef(TRUE, <<"w", "in", "%2e%2e", "s.png">>),
      PathRef(FALSE, <<"l", "b.png">>),
      PathRef(FALSE, <<"l", "a.png">>),
      PathRef(FALSE, <<".sociclaw", "b.png">>),
      PathRef(FALSE, <<".sociclaw", "passwd">>),
      PathRef(FALSE, <<"in", NulSeg>>),
      FileUriRef(<<>>, <<"w", "in", "a.png">>),
      FileUriRef(<<"h">>, <<"w", "in", "a.png">>),
      FileUriRef(<<>>, <<"w", "in", "%2e%2e", "s.png">>),
      FileUriRef(<<>>, <<"o", "b.png">>),
      FileUriRef(<<>>, <<"w", NulSeg>>),
      FileUriRef(HostBracket, <<"w", "in", "a.png">>) }

UrlHosts ==
    { HostAB, HostUpper, HostNoDot, HostSub, HostEvil, HostPrinter, Localhost,
      HostLocalDot, ZeroAddr, IpPrivate, IpLoopback, IpLinkLocal, IpPublic,
      Ip6Loopback, HostBracket, <<>> }

UrlRefs ==
    { UrlRef("https", h, "x.png") : h \in UrlHosts }
    \cup { UrlRef("http", HostAB, "x.png"), UrlRef("https", HostAB, "x") }

Refs == {EmptyRef} \cup InlineRefs \cup LocalRefs \cup UrlRefs

\* where a server may redirect to
RedirectTargets ==
    { Url("https", HostAB, "x.png"), Url("https", HostSub, "y"),
      Url("https", HostEvil, "x.png"), Url("https", Localhost, "x.png"),
      Url("http", HostAB, "x.png"), Url("https", IpPrivate, "x.png") }

UrlOf(r) == Url(r.scheme, r.host, r.name)

----------------------------------------------------------------------------
(* Local path resolution *)

NoPath == [kind |-> "none", path |-> Root]
PathRaises == [kind |-> "raise", path |-> Root]
FoundPath(p) == [kind |-> "path", path |-> p]

\* Mutant: the allowed-root check made on the path as written, before
\* ".." and symlinks are resolved.
NormalizeLocalPathLexical(e, roots, abs, segs) ==
    IF \E i \in 1..Len(segs) : segs[i] = NulSeg THEN PathRaises
    ELSE LET written == IF abs THEN segs ELSE e.cwd \o segs
             candidate == Realpath(e.links, Root, written)
         IN IF ~IsFile(candidate) THEN NoPath
            ELSE IF ~IsAllowedPath(roots, written) THEN NoPath
            ELSE FoundPath(candidate)

\* ImageProviderClient._normalize_local_path: resolve, require a regular
\* file, require it under an allowed root.  A NUL byte makes resolve()
\* raise ValueError, which the except clauses (OSError, RuntimeError) do
\* not catch.
NormalizeLocalPath(e, roots, abs, segs) ==
    IF \E i \in 1..Len(segs) : segs[i] = NulSeg THEN PathRaises
    ELSE LET candidate == IF abs THEN Realpath(e.links, Root, segs)
                          ELSE Realpath(e.links, Root, e.cwd \o segs)
         IN IF ~IsFile(candidate) THEN NoPath
            ELSE IF ~IsAllowedPath(roots, candidate) THEN NoPath
            ELSE FoundPath(candidate)

\* ImageProviderClient._resolve_local_path: a file:// URI is parsed
\* (urlparse outside any try) and percent-decoded; anything else is taken
\* as a path as written
ResolveLocalPath(e, roots, r) ==
    IF r.form = "fileuri"
    THEN IF UrlParseRaises(r.host) THEN PathRaises
         ELSE NormalizeLocalPath(e, roots, TRUE,
                                 [i \in 1..Len(r.segs) |-> Unquote(r.segs[i])])
    ELSE NormalizeLocalPath(e, roots, r.abs, r.segs)

\* the canonical path a reference denotes when read as a local path
CanonicalOf(e, r) ==
    LET segs == IF r.form = "fileuri"
                THEN [i \in 1..Len(r.segs) |-> Unquote(r.segs[i])] ELSE r.segs
    IN IF r.abs THEN Realpath(e.links, Root, segs)
       ELSE Realpath(e.links, Root, e.cwd \o segs)

LastSeg(p) == IF p = <<>> THEN "" ELSE p[Len(p)]

----------------------------------------------------------------------------
(* The Retry Transport: request_with_retry (http_retry.py).  Times are in  *)
(* milliseconds.                                                           *)

DEFAULT_RETRY_STATUSES == {429, 500, 502, 503, 504}

\* the floor of the backoff base, 0.05 s
MinBaseDelay == 50
\* the cap of the jitter range, 0.25 s
JitterCap == 250

\* A response body: its text, and what json() gives: whether it parses, and
\* the fields of the object the job client reads ("" where a key is absent
\* or null).
Body(text, json_ok, job_id, id, status, result_url, url) ==
    [text |-> text, json_ok |-> json_ok, job_id |-> job_id, id |-> id,
     status |-> status, result_url |-> result_url, url |-> url]

NoBody == Body(<<>>, FALSE, "", "", <<>>, "", "")

\* what one session.request call does: it returns a response or raises
ResponseWith(status, body) ==
    [kind |-> "response", status |-> status, type |-> "", body |-> body]
Response(status) == ResponseWith(status, NoBody)
Raises(type) == [kind |-> "exception", status |-> 0, type |-> type, body |-> NoBody]

\* requests.Timeout and requests.ConnectionError derive from
\* requests.RequestException; other exceptions do not
IsRequestException(o) ==
    o.kind = "exception" /\ o.type \in {"Timeout", "ConnectionError"}

Outcomes ==
    { Response(200), Response(401), Response(404), Response(429), Response(503),
      Raises("Timeout"), Raises("ConnectionError"), Raises("KeyboardInterrupt") }

\* the retry_statuses argument: None, or an iterable of statuses
NoStatuses == [given |-> FALSE, set |-> {}]
Statuses(S) == [given |-> TRUE, set |-> S]

\* line 40: set(retry_statuses or DEFAULT_RETRY_STATUSES)
RetryableStatuses(retry_statuses) ==
    IF ~retry_statuses.given \/ retry_statuses.set = {}
    THEN DEFAULT_RETRY_STATUSES
    ELSE retry_statuses.set

RECURSIVE Pow2(_)
Pow2(n) == IF n <= 0 THEN 1 ELSE 2 * Pow2(n - 1)

Max(a, b) == IF a >= b THEN a ELSE b
Min(a, b) == IF a <= b THEN a ELSE b

\* _sleep_with_jitter: delay = max(0.05, base_seconds) * 2 ** attempt
BackoffDelay(base_seconds, attempt) ==
    Max(MinBaseDelay, base_seconds) * Pow2(attempt)

\* _sleep_with_jitter: the upper end of random.uniform(0.0, min(0.25, delay * 0.2))
JitterBound(delay) == Min(JitterCap, delay \div 5)

\* the policies a call is made with; backoff bases are multiples of 5 ms so
\* that delay * 0.2 is exact
RetryPolicies ==
    [max_retries : -1..MaxRetries,
     backoff_base_seconds : {10, 500, 2000},
     retry_statuses : {NoStatuses, Statuses({}), Statuses({404})}]

NoOutcome == [kind |-> "none", status |-> 0, type |-> "", body |-> NoBody]
RuntimeError == Raises("RuntimeError")

\* no call in progress
NoCall ==
    [pc |-> "idle", max_retries |-> 0, backoff_base_seconds |-> 0,
     retry_statuses |-> NoStatuses, attempt |-> 0, calls |-> <<>>,
     sleeps |-> <<>>, last_exception |-> NoOutcome, returned |-> NoOutcome,
     raised |-> NoOutcome, raised_at |-> 0]

----------------------------------------------------------------------------
(* The Job Client: create_job, get_job, wait_for_job and generate_image of *)
(* ImageProviderClient                                                     *)

\* s occurs in t (Python's `s in t` on strings)
IsSubstring(s, t) ==
    \E i \in 0..(Len(t) - Len(s)) : SubSeq(t, i + 1, i + Len(s)) = s

\* requests.Response.ok: raise_for_status() raises for 400 <= status < 600
Ok(response) == ~(400 <= response.status /\ response.status < 600)

\* the tokens of _should_retry_with_alternate_payload
ImageInputTokens ==
    { <<"i", "m", "a", "g", "e", " ", "i", "n", "p", "u", "t">>,
      <<"i", "m", "a", "g", "e", "_", "u", "r", "l">>,
      <<"i", "m", "a", "g", "e", "_", "d", "a", "t", "a", "_", "u", "r", "l">>,
      <<"m", "i", "s", "s", "i", "n", "g", " ", "i", "m", "a", "g", "e">>,
      <<"r", "e", "q", "u", "i", "r", "e", "s", " ", "a", "n", " ", "i", "m", "a", "g", "e">> }

\* ImageProviderClient._should_retry_with_alternate_payload
ShouldRetryWithAlternatePayload(response) ==
    /\ response.status \in {400, 422}
    /\ \E token \in ImageInputTokens : IsSubstring(token, Lower(response.body.text))

\* a JSON payload of the generate request; "" and NoneResult stand for an
\* absent key
Payload(image_url, image_data_url, webhook_url, user_id) ==
    [prompt |-> "prompt", model |-> "model", image_url |-> image_url,
     image_data_url |-> image_data_url, webhook_url |-> webhook_url,
     user_id |-> user_id]

\* the arguments of generate_image
Args(image_url, webhook_url, user_id, timeout_seconds, poll_interval_seconds) ==
    [image_url |-> image_url, webhook_url |-> webhook_url, user_id |-> user_id,
     timeout_seconds |-> timeout_seconds,
     poll_interval_seconds |-> poll_interval_seconds]

\* lines 91-102: base_payload (generate_image passes no extra)
BasePayload(args) ==
    Payload(args.image_url, NoneResult, args.webhook_url, args.user_id)

\* the mutant of PayloadCandidates that tries the data URL alone before
\* the original reference together with the data URL
PayloadCandidatesDataOnlyFirst(args, image_data_url) ==
    LET base_payload == BasePayload(args)
    IN IF args.image_url.form # "empty" /\ image_data_url.kind = "data"
       THEN << base_payload,
               [base_payload EXCEPT !.image_url = EmptyRef,
                                    !.image_data_url = image_data_url],
               [base_payload EXCEPT !.image_data_url = image_data_url] >>
       ELSE << base_payload >>

\* the mutant of PayloadCandidates that builds the alternates whatever the
\* resolver returned
PayloadCandidatesAlways(args, image_data_url) ==
    LET base_payload == BasePayload(args)
    IN IF args.image_url.form # "empty"
       THEN << base_payload,
               [base_payload EXCEPT !.image_data_url = image_data_url],
               [base_payload EXCEPT !.image_url = EmptyRef,
                                    !.image_data_url = image_data_url] >>
       ELSE << base_payload >>

\* lines 104-115: payload_candidates, given what _resolve_image_data_url
\* returned
PayloadCandidates(args, image_data_url) ==
    LET base_payload == BasePayload(args)
    IN IF args.image_url.form # "empty" /\ image_data_url.kind = "data"
       THEN << base_payload,
               [base_payload EXCEPT !.image_data_url = image_data_url],
               [base_payload EXCEPT !.image_url = EmptyRef,
                                    !.image_data_url = image_data_url] >>
       ELSE << base_payload >>

\* an exception leaving the job client: its type and what it carries
Error(type, response, payload) ==
    [type |-> type, response |-> response, payload |-> payload]
NoError == Error("", NoOutcome, NoBody)

\* ImageJobResult; job_id "" stands for no result
ImageJobResult(job_id, status, result_url, raw) ==
    [job_id |-> job_id, status |-> status, result_url |-> result_url, raw |-> raw]
NoJobResult == ImageJobResult("", <<>>, "", NoBody)

\* the policy the job client calls request_with_retry with
ClientPolicy(c) ==
    [max_retries |-> c.max_retries,
     backoff_base_seconds |-> c.backoff_base_seconds,
     retry_statuses |-> NoStatuses]

\* the job statuses wait_for_job knows
Completed == <<"c", "o", "m", "p", "l", "e", "t", "e", "d">>
FailedStatuses ==
    { <<"f", "a", "i", "l", "e", "d">>,
      <<"e", "r", "r", "o", "r">>,
      <<"c", "a", "n", "c", "e", "l", "e", "d">>,
      <<"c", "a", "n", "c", "e", "l", "l", "e", "d">> }

\* the clock is followed up to here
MaxTime == MaxTimeout + 1

\* no generate_image call in progress
NoJob ==
    [pc |-> "idle",
     entry |-> "",               \* the method that was called
     args |-> Args(EmptyRef, "", "", 0, 0),
     payload_candidates |-> <<>>,
     idx |-> 0,
     submissions |-> <<>>,       \* payloads handed to request_with_retry
     responses |-> <<>>,         \* what each submission ended with
     job_id |-> "",
     deadline |-> 0,
     last |-> NoBody,            \* the last job payload polled; NoBody for None
     polls |-> <<>>,             \* the times at which a get_job call started
     statuses |-> <<>>,          \* the "status" of each payload polled
     sleeps |-> 0,               \* time.sleep calls of wait_for_job
     waited |-> NoJobResult,     \* what wait_for_job returned
     returned |-> "",            \* the URL generate_image returned
     raised |-> NoError]

----------------------------------------------------------------------------
(* ImageGenerator (src/sociclaw/scripts/image_generator.py): the data of   *)
(* one generate_image call                                                 *)

\* check_credits without a payment handler: 10**9
UnlimitedCredits == 1000000000

\* check_credits: the handler's balance, or unlimited without a handler
CheckCredits(has_handler, balance) ==
    IF has_handler THEN balance ELSE UnlimitedCredits

\* a time in seconds as a fraction num/den
Seconds(num, den) == [num |-> num, den |-> den]

\* whole seconds in a fraction, rounded down and rounded up
Floor(d) == d.num \div d.den
Ceil(d) == (d.num + d.den - 1) \div d.den

\* an exception leaving the generator: its type and the exception of the
\* attempt it wraps or passes on (NoError for none)
GeneratorError(type, cause) == [type |-> type, cause |-> cause]
NoGeneratorError == GeneratorError("", NoError)

\* the file _save_image writes at time t: sociclaw_{int(time.time())}.png
FileName(t) == <<"sociclaw_", t, ".png">>
NoFile == <<>>

\* ImageResult(url, local_path)
ImageResult(url, local_path) == [url |-> url, local_path |-> local_path]
NoImageResult == ImageResult("", NoFile)

\* exception types that `except Exception` does not catch
BaseExceptionOnly == {"KeyboardInterrupt"}

\* no ImageGenerator.generate_image call in progress
NoGen ==
    [pc |-> "idle",
     has_handler |-> FALSE,           \* bool(self.payment_handler)
     credits |-> 0,                   \* what check_credits returned
     max_retries |-> 0,
     backoff_base |-> Seconds(1, 1),  \* self.backoff_base
     image_url |-> EmptyRef,          \* self.image_url
     attempt |-> 0,
     delay |-> Seconds(1, 1),
     url |-> "",                      \* what the provider returned
     local_path |-> NoFile,           \* what _save_image returned
     provider_calls |-> 0,            \* provider_client.generate_image calls
     jobs |-> <<>>,                   \* how each of them ended
     saves |-> <<>>,                  \* _save_image calls: the provider call
                                      \* they followed and whether they returned
     downloads |-> <<>>,              \* URLs requests.get was called with
     writes |-> <<>>,                 \* write_bytes calls: file, content, ok
     use_credit_calls |-> 0,
     debits |-> 0,                    \* use_credit transactions sent
     sleeps |-> <<>>,                 \* the delays slept between attempts
     last_error |-> NoError,          \* the exception of the last attempt
     returned |-> NoImageResult,
     raised |-> NoGeneratorError]

\* the threads that call generate_image at the same time
Threads == {1, 2}

\* the names _save_image can give a file while the clock is observed
FileNames == { FileName(t) : t \in 0..MaxTime }

\* one thread's generate_image call, seen from its _save_image call on
NoThread ==
    [pc |-> "idle",
     url |-> "",                 \* what the provider returned to it
     file_path |-> NoFile,       \* line 176
     content |-> <<>>,           \* response.content
     returned |-> NoImageResult,
     raised |-> ""]
NoThreads == [t \in Threads |-> NoThread]

\* an empty output directory; <<>> stands for no file
NoFiles == [f \in FileNames |-> <<>>]

----------------------------------------------------------------------------
(* The environment and the constructed client *)

DirItems ==
    { DirItem(TRUE, FALSE, <<>>),            \* " "
      DirItem(FALSE, FALSE, <<"in">>),       \* "in"
      DirItem(FALSE, FALSE, <<"..">>),       \* ".."
      DirItem(FALSE, FALSE, <<".">>),        \* "."
      DirItem(FALSE, FALSE, <<"l">>),        \* "l", possibly a symlink
      DirItem(FALSE, TRUE, <<"o">>),         \* "/o"
      DirItem(FALSE, TRUE, <<>>) }           \* "/"

NoLinks == [p \in LinkSites |-> NoLink]

LocalEnvs ==
    [cwd : {<<"w">>, <<"w", "in">>, Root},
     links : [LinkSites -> LinkTargets \cup {NoLink}],
     dirs : SeqsUpTo(DirItems, MaxConfigured),
     allow_absolute : BOOLEAN]

DefaultLocalEnv ==
    [cwd |-> <<"w">>, links |-> NoLinks, dirs |-> <<>>, allow_absolute |-> FALSE]

\* SOCICLAW_ALLOWED_IMAGE_URL_HOSTS values, as comma-separated items
HostLists ==
    { <<>>, <<HostAB>>, <<<<"*">>>>, <<<<"*", ".">> \o HostAB>>,
      << <<" ">>, <<" ", "A", ".", "B", ".", " ">>, HostAB >> }

RemoteEnvs ==
    [allow_remote : BOOLEAN,
     hosts : HostLists,
     disable_fallback : BOOLEAN,
     max_redirects : 0..MaxRedirectSetting]

DefaultRemoteEnv ==
    [allow_remote |-> FALSE, hosts |-> <<>>, disable_fallback |-> FALSE,
     max_redirects |-> MaxRedirectSetting]

MkEnv(l, r) ==
    [cwd |-> l.cwd, links |-> l.links, dirs |-> l.dirs,
     allow_absolute |-> l.allow_absolute, allow_remote |-> r.allow_remote,
     hosts |-> r.hosts, disable_fallback |-> r.disable_fallback,
     max_redirects |-> r.max_redirects,
     http_max_retries |-> 0, http_backoff_seconds |-> 500]

\* the environments drawn: every local setting with the remote defaults,
\* and every remote setting with the local defaults
Envs ==
    { MkEnv(l, DefaultRemoteEnv) : l \in LocalEnvs }
    \cup { MkEnv(DefaultLocalEnv, r) : r \in RemoteEnvs }

\* ImageProviderClient.__init__
NewClient(e) ==
    [max_payload_bytes |-> MaxPayloadBytes,
     allow_remote_url |-> e.allow_remote,
     allowed_input_roots |-> ResolveAllowedRoots(e),
     allowed_url_hosts |-> ResolveAllowedUrlHosts(e.hosts),
     max_remote_redirects |-> e.max_redirects,
     max_retries |-> e.http_max_retries,
     backoff_base_seconds |-> e.http_backoff_seconds]

\* error: how the fetch failed, "" while it has not ("status" for a
\* response that is not ok, "RequestException" for an exception)
NoResp == [content_type |-> NoType, body |-> <<>>, error |-> ""]
NoBuf == [chunks |-> <<>>, total |-> 0]

Init ==
    /\ env \in Envs
    /\ client = NewClient(env)
    /\ pc = "idle"
    /\ ref = EmptyRef
    /\ result = NoneResult
    /\ reads = {}
    /\ requests = <<>>
    /\ resp = NoResp
    /\ buf = NoBuf
    /\ rt = NoCall
    /\ job = NoJob
    /\ now = 0
    /\ gen = NoGen
    /\ threads = NoThreads
    /\ files = NoFiles

----------------------------------------------------------------------------
(* _resolve_image_data_url *)

\* the call ended with value v
Return(v) ==
    /\ pc' = "done"
    /\ result' = v

\* lines 169-179: a reference that names an allowed regular file is read
\* and turned into a data URL; read_ok is whether read_bytes succeeded
ResolveLocalFile(path, read_ok) ==
    IF ~read_ok
    THEN Return(NoneResult) /\ UNCHANGED reads
    ELSE LET data == FileBytes(path)
             content_type == GuessImageContentType(data, LastSeg(path), NoType)
         IN /\ reads' = reads \cup {path}
            /\ IF ~IsImageType(content_type) THEN Return(NoneResult)
               ELSE Return(BuildImageDataUrl(client.max_payload_bytes, data, content_type))

\* lines 181-191: the gates before a remote fetch, then the first GET of
\* _fetch_remote_image_bytes
ResolveRemote(r) ==
    /\ UNCHANGED reads
    /\ IF ~client.allow_remote_url THEN Return(NoneResult) /\ UNCHANGED requests
       ELSE IF env.disable_fallback THEN Return(NoneResult) /\ UNCHANGED requests
       ELSE IF ~IsAllowedRemoteImageUrl(client.allowed_url_hosts, UrlOf(r))
            THEN Return(NoneResult) /\ UNCHANGED requests
       ELSE /\ pc' = "fetching"
            /\ requests' = <<UrlOf(r)>>
            /\ UNCHANGED result

\* _resolve_image_data_url up to its first network call
Resolve(r, read_ok) ==
    /\ pc = "idle"
    /\ ref' = r
    /\ UNCHANGED <<outsideResolver, env, client, resp, buf>>
    /\ IF r.form \in {"empty", "blank"}
       THEN Return(NoneResult) /\ UNCHANGED <<reads, requests>>
       ELSE IF r.form = "inline"
       THEN Return(StripDataUrl(r.data)) /\ UNCHANGED <<reads, requests>>
       ELSE LET local_path == ResolveLocalPath(env, client.allowed_input_roots, r)
            IN IF local_path.kind = "raise"
               THEN Return(Raised) /\ UNCHANGED <<reads, requests>>
               ELSE IF local_path.kind = "path" /\ IsFile(local_path.path)
               THEN ResolveLocalFile(local_path.path, read_ok) /\ UNCHANGED requests
               ELSE ResolveRemote(r)

----------------------------------------------------------------------------
(* _fetch_remote_image_bytes: session.get(url, stream=True,                *)
(* allow_redirects=True) and the streaming of the body                     *)

\* The server answers 3xx with Location u: with allow_redirects=True the
\* session itself issues the next GET, to u, before the caller sees any
\* response.
FollowRedirect(u) ==
    /\ pc = "fetching"
    /\ Len(requests) <= MaxHops
    /\ requests' = Append(requests, u)
    /\ UNCHANGED <<outsideResolver, env, client, pc, ref, result, reads, resp, buf>>

\* session.get or iter_content raises requests.RequestException
\* (connection error, timeout, TooManyRedirects): b"", None, None
FetchError ==
    /\ pc \in {"fetching", "streaming"}
    /\ Return(NoneResult)
    /\ resp' = [resp EXCEPT !.error = "RequestException"]
    /\ UNCHANGED <<outsideResolver, env, client, ref, reads, requests, buf>>

Headers ==
    { Header("image", "png", FALSE), Header("IMAGE", "png", TRUE),
      Header("text", "html", FALSE), Header("", "", FALSE) }

Bodies ==
    { << PNGMagic, <<1>> >>,
      << PNGMagic, <<>>, Filler(MaxPayloadBytes - 8) >>,
      << PNGMagic, Filler(MaxPayloadBytes - 7), <<9>> >>,
      << <<60, 104>> >>,
      <<>> }

\* Mutant: the final URL is not validated again after redirects.
RespondNoRevalidate(ok, header, body) ==
    /\ pc = "fetching"
    /\ UNCHANGED <<outsideResolver, env, client, ref, reads, requests, buf>>
    /\ LET history == Len(requests) - 1
       IN IF ~ok THEN Return(NoneResult) /\ resp' = [resp EXCEPT !.error = "status"]
          ELSE IF history > 0 /\ history > client.max_remote_redirects
               THEN Return(NoneResult) /\ UNCHANGED resp
          ELSE /\ pc' = "streaming"
               /\ resp' = [content_type |-> MainType(header), body |-> body,
                           error |-> ""]
               /\ UNCHANGED result

\* lines 375-387: the final response arrives; not ok, too many redirects
\* or a final URL that fails the remote-URL checks end the fetch empty
Respond(ok, header, body) ==
    /\ pc = "fetching"
    /\ UNCHANGED <<outsideResolver, env, client, ref, reads, requests, buf>>
    /\ LET url == requests[1]
           final_url == requests[Len(requests)]
           history == Len(requests) - 1
       IN IF ~ok THEN Return(NoneResult) /\ resp' = [resp EXCEPT !.error = "status"]
          ELSE IF history > 0 /\ history > client.max_remote_redirects
               THEN Return(NoneResult) /\ UNCHANGED resp
          ELSE IF final_url # url
                  /\ ~IsAllowedRemoteImageUrl(client.allowed_url_hosts, final_url)
               THEN Return(NoneResult) /\ UNCHANGED resp
          ELSE /\ pc' = "streaming"
               /\ resp' = [content_type |-> MainType(header), body |-> body,
                           error |-> ""]
               /\ UNCHANGED result

\* the mutant of StreamChunk that buffers every chunk and leaves the size
\* test to the end
StreamChunkNoCap ==
    /\ pc = "streaming"
    /\ resp.body # <<>>
    /\ UNCHANGED <<outsideResolver, env, client, ref, reads, requests>>
    /\ LET chunk == Head(resp.body)
           total == buf.total + Len(chunk)
       IN IF chunk = <<>>
          THEN /\ resp' = [resp EXCEPT !.body = Tail(resp.body)]
               /\ UNCHANGED <<pc, result, buf>>
          ELSE /\ resp' = [resp EXCEPT !.body = Tail(resp.body)]
               /\ buf' = [chunks |-> Append(buf.chunks, chunk), total |-> total]
               /\ UNCHANGED <<pc, result>>

\* lines 391-398: one chunk of iter_content
StreamChunk ==
    /\ pc = "streaming"
    /\ resp.body # <<>>
    /\ UNCHANGED <<outsideResolver, env, client, ref, reads, requests>>
    /\ LET chunk == Head(resp.body)
           total == buf.total + Len(chunk)
       IN IF chunk = <<>>
          THEN /\ resp' = [resp EXCEPT !.body = Tail(resp.body)]
               /\ UNCHANGED <<pc, result, buf>>
          ELSE IF total > client.max_payload_bytes
               THEN Return(NoneResult) /\ UNCHANGED <<resp, buf>>
          ELSE /\ resp' = [resp EXCEPT !.body = Tail(resp.body)]
               /\ buf' = [chunks |-> Append(buf.chunks, chunk), total |-> total]
               /\ UNCHANGED <<pc, result>>

\* lines 400-401 and 192-201: the body is complete; decide the content
\* type and build the data URL
StreamEnd ==
    /\ pc = "streaming"
    /\ resp.body = <<>>
    /\ UNCHANGED <<outsideResolver, env, client, ref, reads, requests, resp, buf>>
    /\ LET data == Concat(buf.chunks)
           final_url == requests[Len(requests)]
           ct == resp.content_type
           guessed == GuessImageContentType(data, final_url.name, ct)
           ct2 == IF IsImageType(ct) THEN ct
                  ELSE IF guessed # NoType THEN guessed ELSE ct
       IN IF data = <<>> THEN Return(NoneResult)
          ELSE IF ct2 = NoType THEN Return(NoneResult)
          ELSE Return(BuildImageDataUrl(client.max_payload_bytes, data, ct2))

Next ==
    \/ \E r \in Refs, read_ok \in BOOLEAN : Resolve(r, read_ok)
    \/ \E u \in RedirectTargets : FollowRedirect(u)
    \/ FetchError
    \/ \E ok \in BOOLEAN, h \in Headers, b \in Bodies : Respond(ok, h, b)
    \/ StreamChunk
    \/ StreamEnd

Spec == Init /\ [][Next]_vars

----------------------------------------------------------------------------
(* request_with_retry, one call *)

\* lines 40-43: a call with the policy given, about to enter the loop
Called(policy) ==
    [NoCall EXCEPT !.pc = "loop",
                   !.max_retries = policy.max_retries,
                   !.backoff_base_seconds = policy.backoff_base_seconds,
                   !.retry_statuses = policy.retry_statuses,
                   !.attempt = 0,
                   !.last_exception = NoOutcome]

\* request_with_retry is called
RequestWithRetry(policy) ==
    /\ rt.pc = "idle"
    /\ rt' = Called(policy)
    /\ UNCHANGED outsideRetry

\* a response is handed back to the caller
ReturnResponse(called, o) ==
    [called EXCEPT !.pc = "returned", !.returned = o]

\* an exception leaves the call
Raise(called, o, at) ==
    [called EXCEPT !.pc = "raised", !.raised = o, !.raised_at = at]

\* the mutant of Attempt in which a retryable status that follows an
\* exception draws on a budget of its own
AttemptOwnBudgets(o) ==
    /\ rt.pc = "loop"
    /\ rt.attempt <= rt.max_retries
    /\ UNCHANGED outsideRetry
    /\ LET called == [rt EXCEPT !.calls = Append(rt.calls, o)]
           n == Len(called.calls)
       IN rt' = IF o.kind = "response"
                THEN IF o.status \in RetryableStatuses(rt.retry_statuses)
                        /\ (rt.attempt < rt.max_retries
                            \/ rt.last_exception # NoOutcome)
                     THEN [called EXCEPT !.pc = "sleep"]
                     ELSE ReturnResponse(called, o)
                ELSE IF IsRequestException(o)
                THEN IF rt.attempt >= rt.max_retries
                     THEN Raise([called EXCEPT !.last_exception = o], o, n)
                     ELSE [called EXCEPT !.pc = "sleep", !.last_exception = o]
                ELSE Raise(called, o, n)

\* the mutant of Attempt that retries every status while attempts remain
AttemptRetryAnyStatus(o) ==
    /\ rt.pc = "loop"
    /\ rt.attempt <= rt.max_retries
    /\ UNCHANGED outsideRetry
    /\ LET called == [rt EXCEPT !.calls = Append(rt.calls, o)]
           n == Len(called.calls)
       IN rt' = IF o.kind = "response"
                THEN IF rt.attempt < rt.max_retries
                     THEN [called EXCEPT !.pc = "sleep"]
                     ELSE ReturnResponse(called, o)
                ELSE IF IsRequestException(o)
                THEN IF rt.attempt >= rt.max_retries
                     THEN Raise([called EXCEPT !.last_exception = o], o, n)
                     ELSE [called EXCEPT !.pc = "sleep", !.last_exception = o]
                ELSE Raise(called, o, n)

\* the mutant of Attempt that raises for the status of the last attempt
AttemptRaiseForStatus(o) ==
    /\ rt.pc = "loop"
    /\ rt.attempt <= rt.max_retries
    /\ UNCHANGED outsideRetry
    /\ LET called == [rt EXCEPT !.calls = Append(rt.calls, o)]
           n == Len(called.calls)
       IN rt' = IF o.kind = "response"
                THEN IF o.status \in RetryableStatuses(rt.retry_statuses)
                     THEN IF rt.attempt < rt.max_retries
                          THEN [called EXCEPT !.pc = "sleep"]
                          ELSE Raise(called, Raises("HTTPError"), n)
                     ELSE ReturnResponse(called, o)
                ELSE IF IsRequestException(o)
                THEN IF rt.attempt >= rt.max_retries
                     THEN Raise([called EXCEPT !.last_exception = o], o, n)
                     ELSE [called EXCEPT !.pc = "sleep", !.last_exception = o]
                ELSE Raise(called, o, n)

\* the mutant of Attempt that stops one attempt early
AttemptOneShort(o) ==
    /\ rt.pc = "loop"
    /\ rt.attempt <= rt.max_retries
    /\ UNCHANGED outsideRetry
    /\ LET called == [rt EXCEPT !.calls = Append(rt.calls, o)]
           n == Len(called.calls)
       IN rt' = IF o.kind = "response"
                THEN IF o.status \in RetryableStatuses(rt.retry_statuses)
                        /\ rt.attempt < rt.max_retries - 1
                     THEN [called EXCEPT !.pc = "sleep"]
                     ELSE ReturnResponse(called, o)
                ELSE IF IsRequestException(o)
                THEN IF rt.attempt >= rt.max_retries - 1
                     THEN Raise([called EXCEPT !.last_exception = o], o, n)
                     ELSE [called EXCEPT !.pc = "sleep", !.last_exception = o]
                ELSE Raise(called, o, n)

\* lines 44-62: one pass of the loop body: session.request is called and
\* does o; a retryable status or a RequestException with attempts left
\* leads to the backoff sleep, anything else ends the call
Attempt(o) ==
    /\ rt.pc = "loop"
    /\ rt.attempt <= rt.max_retries
    /\ UNCHANGED outsideRetry
    /\ LET called == [rt EXCEPT !.calls = Append(rt.calls, o)]
           n == Len(called.calls)
       IN rt' = IF o.kind = "response"
                THEN IF o.status \in RetryableStatuses(rt.retry_statuses)
                        /\ rt.attempt < rt.max_retries
                     THEN [called EXCEPT !.pc = "sleep"]
                     ELSE ReturnResponse(called, o)
                ELSE IF IsRequestException(o)
                THEN IF rt.attempt >= rt.max_retries
                     THEN Raise([called EXCEPT !.last_exception = o], o, n)
                     ELSE [called EXCEPT !.pc = "sleep", !.last_exception = o]
                ELSE Raise(called, o, n)

\* the mutant of SleepWithJitter whose delay does not double
SleepWithJitterFlat(u) ==
    /\ rt.pc = "sleep"
    /\ UNCHANGED outsideRetry
    /\ LET delay == Max(MinBaseDelay, rt.backoff_base_seconds)
                        * Pow2(IF rt.attempt = 0 THEN 1 ELSE 0)
           bound == JitterBound(delay)
           jitter == (bound * u) \div JitterSteps
       IN rt' = [rt EXCEPT !.pc = "loop",
                           !.attempt = rt.attempt + 1,
                           !.sleeps = Append(rt.sleeps,
                               [attempt |-> rt.attempt, delay |-> delay,
                                jitter |-> jitter, slept |-> delay + jitter])]

\* the mutant of SleepWithJitter whose jitter range is not capped
SleepWithJitterUncapped(u) ==
    /\ rt.pc = "sleep"
    /\ UNCHANGED outsideRetry
    /\ LET delay == BackoffDelay(rt.backoff_base_seconds, rt.attempt)
           bound == delay \div 2
           jitter == (bound * u) \div JitterSteps
       IN rt' = [rt EXCEPT !.pc = "loop",
                           !.attempt = rt.attempt + 1,
                           !.sleeps = Append(rt.sleeps,
                               [attempt |-> rt.attempt, delay |-> delay,
                                jitter |-> jitter, slept |-> delay + jitter])]

\* lines 54-55 and 62, _sleep_with_jitter (70-73): the backoff sleep after
\* failed attempt rt.attempt, then the next pass of the loop; random.uniform
\* draws the u-th of the JitterSteps + 1 sampled points of its range
SleepWithJitter(u) ==
    /\ rt.pc = "sleep"
    /\ UNCHANGED outsideRetry
    /\ LET delay == BackoffDelay(rt.backoff_base_seconds, rt.attempt)
           bound == JitterBound(delay)
           jitter == (bound * u) \div JitterSteps
       IN rt' = [rt EXCEPT !.pc = "loop",
                           !.attempt = rt.attempt + 1,
                           !.sleeps = Append(rt.sleeps,
                               [attempt |-> rt.attempt, delay |-> delay,
                                jitter |-> jitter, slept |-> delay + jitter])]

\* lines 64-67: the loop ended without returning or raising
LoopExhausted ==
    /\ rt.pc = "loop"
    /\ rt.attempt > rt.max_retries
    /\ UNCHANGED outsideRetry
    /\ rt' = IF rt.last_exception # NoOutcome
             THEN Raise(rt, rt.last_exception, Len(rt.calls))
             ELSE Raise(rt, RuntimeError, 0)

RetryInit ==
    /\ env = MkEnv(DefaultLocalEnv, DefaultRemoteEnv)
    /\ client = NewClient(env)
    /\ pc = "idle"
    /\ ref = EmptyRef
    /\ result = NoneResult
    /\ reads = {}
    /\ requests = <<>>
    /\ resp = NoResp
    /\ buf = NoBuf
    /\ rt = NoCall
    /\ job = NoJob
    /\ now = 0
    /\ gen = NoGen
    /\ threads = NoThreads
    /\ files = NoFiles

RetryNext ==
    \/ \E policy \in RetryPolicies : RequestWithRetry(policy)
    \/ \E o \in Outcomes : Attempt(o)
    \/ \E u \in 0..JitterSteps : SleepWithJitter(u)
    \/ LoopExhausted

SpecRetry == RetryInit /\ [][RetryNext]_vars

----------------------------------------------------------------------------
(* ImageProviderClient.generate_image: create_job, then wait_for_job *)

\* the call ends with an exception
JobRaises(j, e) == [j EXCEPT !.pc = "raised", !.raised = e]

\* lines 527-533 and 91-106: generate_image calls create_job, which builds
\* base_payload and, given an image reference, turns to the resolver
NewJob(args) ==
    [NoJob EXCEPT !.args = args,
                  !.entry = "generate_image",
                  !.pc = IF args.image_url.form # "empty"
                         THEN "resolve" ELSE "submit",
                  !.payload_candidates = PayloadCandidates(args, NoneResult)]

\* ImageProviderClient.generate_image called on its own
GenerateImage(args) ==
    /\ job.pc = "idle"
    /\ pc = "idle"
    /\ job' = NewJob(args)
    /\ UNCHANGED <<gen, saveVars, resolverVars, rt, now>>

\* line 106: _resolve_image_data_url(image_url) starts
ResolveImageUrl(read_ok) ==
    /\ job.pc = "resolve"
    /\ Resolve(job.args.image_url, read_ok)

\* lines 106-115: the resolver has returned (or raised): payload_candidates
CandidatesBuilt ==
    /\ job.pc = "resolve"
    /\ pc = "done"
    /\ job' = IF result.kind = "raised"
              THEN JobRaises(job, Error("ValueError", NoOutcome, NoBody))
              ELSE [job EXCEPT !.pc = "submit",
                               !.payload_candidates = PayloadCandidates(job.args, result)]
    /\ UNCHANGED <<gen, saveVars, resolverVars, rt, now>>

\* lines 118-128: the next candidate is handed to request_with_retry
Submit ==
    /\ job.pc = "submit"
    /\ rt.pc = "idle"
    /\ rt' = Called(ClientPolicy(client))
    /\ job' = [job EXCEPT !.pc = "submitted",
                          !.submissions = Append(job.submissions,
                                                 job.payload_candidates[job.idx + 1])]
    /\ UNCHANGED <<gen, saveVars, resolverVars, now>>

\* the mutant of JobCreated that waits for the job whatever create_job
\* returned
JobCreatedNoCheck(j, created) ==
    LET job_id == IF created.job_id # "" THEN created.job_id ELSE created.id
    IN [j EXCEPT !.pc = "poll",
                 !.job_id = job_id,
                 !.deadline = now + j.args.timeout_seconds]

\* lines 535-537 and 494-495: generate_image reads the job id of what
\* create_job returned and enters wait_for_job
JobCreated(j, created) ==
    LET job_id == IF created.job_id # "" THEN created.job_id ELSE created.id
    IN IF job_id = ""
       THEN JobRaises(j, Error("RuntimeError", NoOutcome, created))
       ELSE [j EXCEPT !.pc = "poll",
                      !.job_id = job_id,
                      !.deadline = now + j.args.timeout_seconds]

\* the mutant of Submitted that tries the alternate payload after any
\* response that is not ok
SubmittedAlwaysFallsBack ==
    /\ job.pc = "submitted"
    /\ rt.pc \in {"returned", "raised"}
    /\ rt' = NoCall
    /\ UNCHANGED <<gen, saveVars, resolverVars, now>>
    /\ LET resp_ == rt.returned
           j == [job EXCEPT !.responses = Append(job.responses,
                                IF rt.pc = "raised" THEN rt.raised ELSE resp_)]
           has_fallback == job.idx < Len(job.payload_candidates) - 1
       IN job' = IF rt.pc = "raised"
                 THEN JobRaises(j, Error(rt.raised.type, NoOutcome, NoBody))
                 ELSE IF Ok(resp_)
                 THEN IF ~resp_.body.json_ok
                      THEN JobRaises(j, Error("JSONDecodeError", resp_, NoBody))
                      ELSE JobCreated(j, resp_.body)
                 ELSE IF has_fallback
                 THEN [j EXCEPT !.pc = "submit", !.idx = job.idx + 1]
                 ELSE JobRaises(j, Error("HTTPError", resp_, NoBody))

\* lines 129-141: request_with_retry has returned a response or raised;
\* create_job returns its JSON, moves to the next candidate or raises
Submitted ==
    /\ job.pc = "submitted"
    /\ rt.pc \in {"returned", "raised"}
    /\ rt' = NoCall
    /\ UNCHANGED <<gen, saveVars, resolverVars, now>>
    /\ LET resp_ == rt.returned
           j == [job EXCEPT !.responses = Append(job.responses,
                                IF rt.pc = "raised" THEN rt.raised ELSE resp_)]
           has_fallback == job.idx < Len(job.payload_candidates) - 1
       IN job' = IF rt.pc = "raised"
                 THEN JobRaises(j, Error(rt.raised.type, NoOutcome, NoBody))
                 ELSE IF Ok(resp_)
                 THEN IF ~resp_.body.json_ok
                      THEN JobRaises(j, Error("JSONDecodeError", resp_, NoBody))
                      ELSE JobCreated(j, resp_.body)
                 ELSE IF has_fallback /\ ShouldRetryWithAlternatePayload(resp_)
                 THEN [j EXCEPT !.pc = "submit", !.idx = job.idx + 1]
                 ELSE JobRaises(j, Error("HTTPError", resp_, NoBody))

----------------------------------------------------------------------------
(* ImageProviderClient.wait_for_job and get_job *)

\* lines 487-495: wait_for_job called on its own
WaitForJob(job_id, timeout_seconds, poll_interval_seconds) ==
    /\ job.pc = "idle"
    /\ job' = [NoJob EXCEPT !.pc = "poll",
                            !.entry = "wait_for_job",
                            !.args = Args(EmptyRef, "", "", timeout_seconds,
                                          poll_interval_seconds),
                            !.job_id = job_id,
                            !.deadline = now + timeout_seconds]
    /\ UNCHANGED <<gen, saveVars, resolverVars, rt, now>>

\* lines 497-498 and 514, 474-483: the loop test; before the deadline
\* get_job is called and hands its request to request_with_retry, at or
\* after it the TimeoutError is raised.  The clock is taken to advance
\* before more than MaxPolls status requests have been made.
PollCheck ==
    /\ job.pc = "poll"
    /\ rt.pc = "idle"
    /\ (now < job.deadline => Len(job.polls) < MaxPolls)
    /\ UNCHANGED <<gen, saveVars, resolverVars, now>>
    /\ IF now < job.deadline
       THEN /\ rt' = Called(ClientPolicy(client))
            /\ job' = [job EXCEPT !.pc = "polling",
                                  !.polls = Append(job.polls, now)]
       ELSE /\ rt' = rt
            /\ job' = JobRaises(job, Error("TimeoutError", NoOutcome, job.last))

\* the mutant of Waited that returns whatever wait_for_job returned
WaitedNoCheck(j, res) ==
    [j EXCEPT !.pc = "returned", !.waited = res, !.returned = res.result_url]

\* lines 502-507: wait_for_job returns res; lines 545-548: generate_image
\* returns its result URL, or raises when there is none
Waited(j, res) ==
    IF j.entry = "wait_for_job"
    THEN [j EXCEPT !.pc = "returned", !.waited = res]
    ELSE IF res.result_url = ""
    THEN JobRaises([j EXCEPT !.waited = res], Error("RuntimeError", NoOutcome, res.raw))
    ELSE [j EXCEPT !.pc = "returned", !.waited = res, !.returned = res.result_url]

\* the mutant of Polled that goes on polling a job that failed
PolledCompletedOnly ==
    /\ job.pc = "polling"
    /\ rt.pc \in {"returned", "raised"}
    /\ rt' = NoCall
    /\ UNCHANGED <<gen, saveVars, resolverVars, now>>
    /\ LET resp_ == rt.returned
           last == resp_.body
           status == Strip(Lower(last.status))
           j == [job EXCEPT !.last = last,
                            !.statuses = Append(job.statuses, last.status)]
       IN job' = IF rt.pc = "raised"
                 THEN JobRaises(job, Error(rt.raised.type, NoOutcome, NoBody))
                 ELSE IF ~Ok(resp_)
                 THEN JobRaises(job, Error("HTTPError", resp_, NoBody))
                 ELSE IF ~last.json_ok
                 THEN JobRaises(job, Error("JSONDecodeError", resp_, NoBody))
                 ELSE IF status = Completed
                 THEN Waited(j, ImageJobResult(job.job_id, status,
                                 IF last.result_url # "" THEN last.result_url
                                 ELSE last.url, last))
                 ELSE [j EXCEPT !.pc = "sleeping"]

\* the mutant of Polled that treats a failed status request as a job
\* still in progress
PolledSwallowsErrors ==
    /\ job.pc = "polling"
    /\ rt.pc \in {"returned", "raised"}
    /\ rt' = NoCall
    /\ UNCHANGED <<gen, saveVars, resolverVars, now>>
    /\ LET resp_ == rt.returned
           last == resp_.body
           status == Strip(Lower(last.status))
           j == [job EXCEPT !.last = last,
                            !.statuses = Append(job.statuses, last.status)]
       IN job' = IF rt.pc = "raised"
                 THEN [job EXCEPT !.pc = "sleeping"]
                 ELSE IF ~Ok(resp_)
                 THEN [job EXCEPT !.pc = "sleeping"]
                 ELSE IF ~last.json_ok
                 THEN JobRaises(job, Error("JSONDecodeError", resp_, NoBody))
                 ELSE IF status = Completed
                 THEN Waited(j, ImageJobResult(job.job_id, status,
                                 IF last.result_url # "" THEN last.result_url
                                 ELSE last.url, last))
                 ELSE IF status \in FailedStatuses
                 THEN JobRaises(j, Error("RuntimeError", NoOutcome, last))
                 ELSE [j EXCEPT !.pc = "sleeping"]

\* the mutant of Polled that compares the status as it came
PolledCaseSensitive ==
    /\ job.pc = "polling"
    /\ rt.pc \in {"returned", "raised"}
    /\ rt' = NoCall
    /\ UNCHANGED <<gen, saveVars, resolverVars, now>>
    /\ LET resp_ == rt.returned
           last == resp_.body
           status == last.status
           j == [job EXCEPT !.last = last,
                            !.statuses = Append(job.statuses, last.status)]
       IN job' = IF rt.pc = "raised"
                 THEN JobRaises(job, Error(rt.raised.type, NoOutcome, NoBody))
                 ELSE IF ~Ok(resp_)
                 THEN JobRaises(job, Error("HTTPError", resp_, NoBody))
                 ELSE IF ~last.json_ok
                 THEN JobRaises(job, Error("JSONDecodeError", resp_, NoBody))
                 ELSE IF status = Completed
                 THEN Waited(j, ImageJobResult(job.job_id, status,
                                 IF last.result_url # "" THEN last.result_url
                                 ELSE last.url, last))
                 ELSE IF status \in FailedStatuses
                 THEN JobRaises(j, Error("RuntimeError", NoOutcome, last))
                 ELSE [j EXCEPT !.pc = "sleeping"]

\* lines 484-485 and 498-510: request_with_retry has returned a response or
\* raised; get_job raises for a status that is not ok and parses the JSON,
\* and wait_for_job acts on the status of the payload
Polled ==
    /\ job.pc = "polling"
    /\ rt.pc \in {"returned", "raised"}
    /\ rt' = NoCall
    /\ UNCHANGED <<gen, saveVars, resolverVars, now>>
    /\ LET resp_ == rt.returned
           last == resp_.body
           status == Strip(Lower(last.status))
           j == [job EXCEPT !.last = last,
                            !.statuses = Append(job.statuses, last.status)]
       IN job' = IF rt.pc = "raised"
                 THEN JobRaises(job, Error(rt.raised.type, NoOutcome, NoBody))
                 ELSE IF ~Ok(resp_)
                 THEN JobRaises(job, Error("HTTPError", resp_, NoBody))
                 ELSE IF ~last.json_ok
                 THEN JobRaises(job, Error("JSONDecodeError", resp_, NoBody))
                 ELSE IF status = Completed
                 THEN Waited(j, ImageJobResult(job.job_id, status,
                                 IF last.result_url # "" THEN last.result_url
                                 ELSE last.url, last))
                 ELSE IF status \in FailedStatuses
                 THEN JobRaises(j, Error("RuntimeError", NoOutcome, last))
                 ELSE [j EXCEPT !.pc = "sleeping"]

\* the mutant of PollSleep that calls get_job again after the sleep without
\* testing the deadline
PollSleepNoTest ==
    /\ job.pc = "sleeping"
    /\ now' = now + job.args.poll_interval_seconds
    /\ Len(job.polls) < MaxPolls
    /\ job' = [job EXCEPT !.pc = "polling", !.sleeps = job.sleeps + 1,
                          !.polls = Append(job.polls, now')]
    /\ rt' = Called(ClientPolicy(client))
    /\ UNCHANGED <<gen, saveVars, resolverVars>>

\* line 512: time.sleep(int(poll_interval_seconds)), then back to the loop
\* test
PollSleep ==
    /\ job.pc = "sleeping"
    /\ now' = now + job.args.poll_interval_seconds
    /\ job' = [job EXCEPT !.pc = "poll", !.sleeps = job.sleeps + 1]
    /\ UNCHANGED <<gen, saveVars, resolverVars, rt>>

\* the clock advances while wait_for_job runs
Tick ==
    /\ job.pc \in {"poll", "polling", "sleeping"}
    /\ now < Max(MaxTime, job.deadline + 1)
    /\ now' = now + 1
    /\ UNCHANGED <<gen, saveVars, resolverVars, rt, job>>

----------------------------------------------------------------------------
(* The inputs of the job client and its specifications *)

\* job payloads a status request may be answered with
JobBody(status, result_url, url) == Body(<<>>, TRUE, "", "", status, result_url, url)

PollBodies ==
    { JobBody(<<"c", "o", "m", "p", "l", "e", "t", "e", "d">>, "r", ""),
      JobBody(<<"c", "o", "m", "p", "l", "e", "t", "e", "d">>, "", "u"),
      JobBody(<<"c", "o", "m", "p", "l", "e", "t", "e", "d">>, "r", "u"),
      JobBody(<<"c", "o", "m", "p", "l", "e", "t", "e", "d">>, "", ""),
      JobBody(<<" ", "C", "o", "m", "p", "l", "e", "t", "e", "d", " ">>, "r", ""),
      JobBody(<<"f", "a", "i", "l", "e", "d">>, "", ""),
      JobBody(<<"F", "A", "I", "L", "E", "D">>, "", "u"),
      JobBody(<<"e", "r", "r", "o", "r">>, "", ""),
      JobBody(<<"c", "a", "n", "c", "e", "l", "e", "d">>, "", ""),
      JobBody(<<"c", "a", "n", "c", "e", "l", "l", "e", "d">>, "", ""),
      JobBody(<<"r", "u", "n", "n", "i", "n", "g">>, "", ""),
      JobBody(<<"q", "u", "e", "u", "e", "d">>, "r", ""),
      JobBody(<<>>, "", "") }

\* what a status request may do
PollOutcomes ==
    { ResponseWith(200, b) : b \in PollBodies }
    \cup { ResponseWith(200, NoBody), Response(404), Response(503),
           Raises("Timeout") }

\* what a generate request may do
PostOutcomes ==
    { ResponseWith(200, Body(<<>>, TRUE, "j1", "", <<>>, "", "")),
      ResponseWith(200, Body(<<>>, TRUE, "", "j2", <<>>, "", "")),
      ResponseWith(200, Body(<<>>, TRUE, "", "", <<>>, "", "")),
      ResponseWith(200, NoBody),
      ResponseWith(401, Body(<<"U", "n", "a", "u", "t", "h", "o", "r", "i", "z", "e", "d">>, TRUE, "", "", <<>>, "", "")),
      ResponseWith(422, Body(<<"R", "e", "q", "u", "i", "r", "e", "s", " ", "a", "n", " ", "I", "m", "a", "g", "e">>, TRUE, "", "", <<>>, "", "")),
      ResponseWith(400, Body(<<"i", "m", "a", "g", "e", "_", "u", "r", "l">>, TRUE, "", "", <<>>, "", "")),
      ResponseWith(422, Body(<<"b", "a", "d", " ", "p", "r", "o", "m", "p", "t">>, TRUE, "", "", <<>>, "", "")),
      ResponseWith(400, NoBody),
      ResponseWith(404, Body(<<"m", "i", "s", "s", "i", "n", "g", " ", "i", "m", "a", "g", "e">>, TRUE, "", "", <<>>, "", "")),
      ResponseWith(503, Body(<<"i", "m", "a", "g", "e", "_", "u", "r", "l">>, TRUE, "", "", <<>>, "", "")),
      Raises("ConnectionError") }

\* the transport settings a client is constructed with
TransportEnvs(e) ==
    { [e EXCEPT !.http_max_retries = n] : n \in -1..MaxClientRetries }

PollInit ==
    /\ env \in TransportEnvs(MkEnv(DefaultLocalEnv, DefaultRemoteEnv))
    /\ client = NewClient(env)
    /\ pc = "idle"
    /\ ref = EmptyRef
    /\ result = NoneResult
    /\ reads = {}
    /\ requests = <<>>
    /\ resp = NoResp
    /\ buf = NoBuf
    /\ rt = NoCall
    /\ job = NoJob
    /\ now = 0
    /\ gen = NoGen
    /\ threads = NoThreads
    /\ files = NoFiles

\* a request of the job client is answered
Answered(at, outcomes) ==
    /\ job.pc = at
    /\ \E o \in outcomes : Attempt(o)

PollNext ==
    \/ \E t \in 0..MaxTimeout, i \in 0..MaxPollInterval : WaitForJob("j1", t, i)
    \/ PollCheck
    \/ Answered("polling", PollOutcomes)
    \/ SleepWithJitter(0)
    \/ LoopExhausted
    \/ Polled
    \/ PollSleep
    \/ Tick

SpecPoll == PollInit /\ [][PollNext]_vars

\* a job that stays in progress behind a server that is at times
\* unavailable
InProgressOutcomes ==
    { ResponseWith(200, JobBody(<<"r", "u", "n", "n", "i", "n", "g">>, "", "")),
      ResponseWith(200, JobBody(<<"F", "a", "i", "l", "e", "d">>, "", "")),
      Response(503) }

PollInProgressNext ==
    \/ \E t \in {0, MaxTimeout}, i \in {0, MaxPollInterval} : WaitForJob("j1", t, i)
    \/ PollCheck
    \/ Answered("polling", InProgressOutcomes)
    \/ SleepWithJitter(0)
    \/ LoopExhausted
    \/ Polled
    \/ PollSleep
    \/ Tick

\* every request and every sleep returns, and the clock advances
PollFairness ==
    /\ WF_vars(PollCheck)
    /\ WF_vars(Answered("polling", InProgressOutcomes))
    /\ WF_vars(SleepWithJitter(0))
    /\ WF_vars(LoopExhausted)
    /\ WF_vars(Polled)
    /\ WF_vars(PollSleep)
    /\ WF_vars(Tick)

SpecPollFair == PollInit /\ [][PollInProgressNext]_vars /\ PollFairness

\* the environments a job client is constructed in: a configured local
\* root, remote fetch enabled for one host, and both together with the
\* inline fallback disabled
JobEnvs ==
    LET in_dir == [DefaultLocalEnv EXCEPT !.dirs = <<DirItem(FALSE, FALSE, <<"in">>)>>]
        remote == [allow_remote |-> TRUE, hosts |-> <<HostAB>>,
                   disable_fallback |-> FALSE, max_redirects |-> MaxRedirectSetting]
    IN UNION { TransportEnvs(e) :
                 e \in { MkEnv(in_dir, DefaultRemoteEnv),
                         MkEnv(DefaultLocalEnv, remote),
                         MkEnv(in_dir, [remote EXCEPT !.disable_fallback = TRUE]) } }

\* the image references a job is created with
JobRefs ==
    { EmptyRef,
      BlankRef,
      InlineRef(TinyPng),
      PathRef(FALSE, <<"in", "a.png">>),
      PathRef(TRUE, <<"w", "in", "big.png">>),
      FileUriRef(<<>>, <<"w", "in", "a.png">>),
      FileUriRef(HostBracket, <<"w", "in", "a.png">>),
      UrlRef("https", HostAB, "x.png"),
      UrlRef("https", HostEvil, "x.png") }

JobArgs ==
    { Args(r, "", "u", 1, 1) : r \in JobRefs }
    \cup { Args(EmptyRef, "w", "", 0, 0) }

\* what a status request of a generate_image call may do
JobPollOutcomes ==
    { ResponseWith(200, JobBody(Completed, "r", "")),
      ResponseWith(200, JobBody(Completed, "", "u")),
      ResponseWith(200, JobBody(Completed, "", "")),
      ResponseWith(200, JobBody(<<"F", "a", "i", "l", "e", "d">>, "", "")),
      ResponseWith(200, JobBody(<<"r", "u", "n", "n", "i", "n", "g">>, "", "")),
      Response(404), Response(503), Raises("Timeout") }

JobInit ==
    /\ env \in JobEnvs
    /\ client = NewClient(env)
    /\ pc = "idle"
    /\ ref = EmptyRef
    /\ result = NoneResult
    /\ reads = {}
    /\ requests = <<>>
    /\ resp = NoResp
    /\ buf = NoBuf
    /\ rt = NoCall
    /\ job = NoJob
    /\ now = 0
    /\ gen = NoGen
    /\ threads = NoThreads
    /\ files = NoFiles

\* the image server of the job specifications answers or redirects once
JobImageServer ==
    \/ FollowRedirect(Url("https", HostEvil, "x.png"))
    \/ FetchError
    \/ \E ok \in BOOLEAN, b \in {<< PNGMagic, <<1>> >>, << <<60, 104>> >>} :
           Respond(ok, Header("image", "png", FALSE), b)
    \/ StreamChunk
    \/ StreamEnd

JobNext ==
    \/ \E args \in JobArgs : GenerateImage(args)
    \/ \E read_ok \in BOOLEAN : ResolveImageUrl(read_ok)
    \/ JobImageServer
    \/ CandidatesBuilt
    \/ Submit
    \/ Answered("submitted", PostOutcomes)
    \/ Submitted
    \/ PollCheck
    \/ Answered("polling", JobPollOutcomes)
    \/ SleepWithJitter(JitterSteps)
    \/ LoopExhausted
    \/ Polled
    \/ PollSleep
    \/ Tick

SpecJob == JobInit /\ [][JobNext]_vars

----------------------------------------------------------------------------
(* ImageGenerator.generate_image: the credit gate, the attempts, the       *)
(* download and the debit                                                  *)

\* lines 140 and 169: the head of `for attempt in range(1, max_retries + 1)`;
\* past the last attempt the call raises RuntimeError naming last_error
LoopHead(g) ==
    IF g.attempt <= g.max_retries
    THEN [g EXCEPT !.pc = "attempt"]
    ELSE [g EXCEPT !.pc = "raised",
                   !.raised = GeneratorError("RuntimeError", g.last_error)]

\* lines 161-169: `except Exception as exc`; an exception that is no
\* Exception leaves the call as it is
Except(g, exc) ==
    IF exc.type \in BaseExceptionOnly
    THEN [g EXCEPT !.pc = "raised", !.raised = GeneratorError(exc.type, exc)]
    ELSE IF g.attempt >= g.max_retries
    THEN [g EXCEPT !.last_error = exc,
                   !.pc = "raised",
                   !.raised = GeneratorError("RuntimeError", exc)]
    ELSE [g EXCEPT !.last_error = exc, !.pc = "sleep"]

\* the mutant of GeneratorGenerateImage that lets a balance of zero pass
GeneratorGenerateImageZeroPasses(has_handler, balance, max_retries, backoff_base, image_url) ==
    /\ gen.pc = "idle"
    /\ job.pc = "idle"
    /\ LET credits == CheckCredits(has_handler, balance)
           g == [NoGen EXCEPT !.has_handler = has_handler,
                              !.credits = credits,
                              !.max_retries = max_retries,
                              !.backoff_base = backoff_base,
                              !.image_url = image_url,
                              !.attempt = 1]
       IN gen' = IF credits < 0
                 THEN [g EXCEPT !.pc = "raised",
                                !.raised = GeneratorError("ValueError", NoError)]
                 ELSE LoopHead(g)
    /\ UNCHANGED <<saveVars, resolverVars, rt, job, now>>

\* lines 129-140: generate_image is called: check_credits, the credit gate,
\* then the first turn of the loop
GeneratorGenerateImage(has_handler, balance, max_retries, backoff_base, image_url) ==
    /\ gen.pc = "idle"
    /\ job.pc = "idle"
    /\ LET credits == CheckCredits(has_handler, balance)
           g == [NoGen EXCEPT !.has_handler = has_handler,
                              !.credits = credits,
                              !.max_retries = max_retries,
                              !.backoff_base = backoff_base,
                              !.image_url = image_url,
                              !.attempt = 1]
       IN gen' = IF credits <= 0
                 THEN [g EXCEPT !.pc = "raised",
                                !.raised = GeneratorError("ValueError", NoError)]
                 ELSE LoopHead(g)
    /\ UNCHANGED <<saveVars, resolverVars, rt, job, now>>

\* lines 144-152: provider_client.generate_image is called with the
\* generator's settings
ProviderGenerateImage(timeout_seconds, poll_interval_seconds) ==
    /\ gen.pc = "attempt"
    /\ job.pc = "idle"
    /\ pc = "idle"
    /\ job' = NewJob(Args(gen.image_url, "", "u", timeout_seconds,
                          poll_interval_seconds))
    /\ gen' = [gen EXCEPT !.pc = "provider",
                          !.provider_calls = gen.provider_calls + 1]
    /\ UNCHANGED <<saveVars, resolverVars, rt, now>>

\* lines 144-154 and 161: the provider call has returned the result URL or
\* raised; the job client and its resolver are at rest again
ProviderReturned ==
    /\ gen.pc = "provider"
    /\ job.pc \in {"returned", "raised"}
    /\ job' = NoJob
    /\ pc' = "idle"
    /\ ref' = EmptyRef
    /\ result' = NoneResult
    /\ resp' = NoResp
    /\ buf' = NoBuf
    /\ LET g == [gen EXCEPT !.jobs = Append(gen.jobs, job)]
       IN gen' = IF job.pc = "returned"
                 THEN [g EXCEPT !.pc = "save", !.url = job.returned]
                 ELSE Except(g, job.raised)
    /\ UNCHANGED <<saveVars, env, client, reads, requests, rt, now>>

\* after the save: the debit when a payment handler is configured (line
\* 156), else the return (line 159)
Saved(g, file_path) ==
    IF g.has_handler
    THEN [g EXCEPT !.pc = "debit", !.local_path = file_path]
    ELSE [g EXCEPT !.pc = "returned",
                   !.local_path = file_path,
                   !.returned = ImageResult(g.url, file_path)]

\* lines 154 and 171-183: _save_image: requests.get(url), raise_for_status,
\* write_bytes.  o is what the GET does, write_ok whether the write
\* succeeds.
SaveImage(o, content, write_ok) ==
    /\ gen.pc = "save"
    /\ LET file_path == FileName(now)
           ok == o.kind = "response" /\ Ok(o) /\ write_ok
           g == [gen EXCEPT !.downloads = Append(gen.downloads, gen.url),
                            !.saves = Append(gen.saves,
                                          [call |-> gen.provider_calls,
                                           ok |-> ok])]
           w == [g EXCEPT !.writes = Append(g.writes,
                              [file |-> file_path, content |-> content,
                               ok |-> write_ok])]
       IN gen' = IF o.kind = "raises"
                 THEN Except(g, Error(o.type, NoOutcome, NoBody))
                 ELSE IF ~Ok(o)
                 THEN Except(g, Error("HTTPError", o, NoBody))
                 ELSE IF ~write_ok
                 THEN Except(w, Error("OSError", NoOutcome, NoBody))
                 ELSE Saved(w, file_path)
    /\ UNCHANGED <<saveVars, resolverVars, rt, job, now>>

\* lines 156-159: payment_handler.use_credit: the transaction is sent or
\* not, and the call returns (only once it was sent) or raises
UseCredit(sent, ok) ==
    /\ gen.pc = "debit"
    /\ ok => sent
    /\ LET g == [gen EXCEPT !.use_credit_calls = gen.use_credit_calls + 1,
                            !.debits = gen.debits + (IF sent THEN 1 ELSE 0)]
       IN gen' = IF ok
                 THEN [g EXCEPT !.pc = "returned",
                                !.returned = ImageResult(g.url, g.local_path)]
                 ELSE Except(g, Error("ValueError", NoOutcome, NoBody))
    /\ UNCHANGED <<saveVars, resolverVars, rt, job, now>>

\* the mutant of RetrySleep that sleeps the same delay every time
RetrySleepFlat(up) ==
    /\ gen.pc = "sleep"
    /\ now' = now + (IF up THEN Ceil(gen.delay) ELSE Floor(gen.delay))
    /\ gen' = LoopHead([gen EXCEPT
                  !.sleeps = Append(gen.sleeps, gen.delay),
                  !.attempt = gen.attempt + 1])
    /\ UNCHANGED <<saveVars, resolverVars, rt, job>>

\* lines 166-167 and 140: time.sleep(delay), delay *= backoff_base, and the
\* next turn of the loop.  The clock, read in whole seconds, has advanced
\* by the delay rounded down or up.
RetrySleep(up) ==
    /\ gen.pc = "sleep"
    /\ now' = now + (IF up THEN Ceil(gen.delay) ELSE Floor(gen.delay))
    /\ gen' = LoopHead([gen EXCEPT
                  !.sleeps = Append(gen.sleeps, gen.delay),
                  !.delay = Seconds(gen.delay.num * gen.backoff_base.num,
                                    gen.delay.den * gen.backoff_base.den),
                  !.attempt = gen.attempt + 1])
    /\ UNCHANGED <<saveVars, resolverVars, rt, job>>

----------------------------------------------------------------------------
(* The inputs of the generator and its specification *)

\* what a generate request of a generator's job may do
GeneratorPostOutcomes ==
    { ResponseWith(200, Body(<<>>, TRUE, "j1", "", <<>>, "", "")),
      ResponseWith(200, Body(<<>>, TRUE, "", "", <<>>, "", "")),
      ResponseWith(401, NoBody),
      ResponseWith(422, Body(<<"b", "a", "d", " ", "p", "r", "o", "m", "p", "t">>, TRUE, "", "", <<>>, "", "")),
      Response(503),
      Raises("KeyboardInterrupt") }

\* what a status request of a generator's job may do
GeneratorPollOutcomes ==
    { ResponseWith(200, JobBody(Completed, "r", "")),
      ResponseWith(200, JobBody(Completed, "", "")),
      ResponseWith(200, JobBody(<<"f", "a", "i", "l", "e", "d">>, "", "")),
      ResponseWith(200, JobBody(<<"r", "u", "n", "n", "i", "n", "g">>, "", "")) }

\* what the GET of _save_image may do
DownloadOutcomes == { Response(200), Response(404) }

\* self.image_url of the generators drawn
GeneratorRefs == { EmptyRef, PathRef(FALSE, <<"in", "a.png">>) }

\* backoff_base of the generators drawn: 1.5 (the default) and 2
BackoffBases == { Seconds(3, 2), Seconds(2, 1) }

\* the environments a generator's job client is constructed in: one
\* configured local root, and no retry loop at all or the most retries
GeneratorEnvs ==
    LET in_dir == [DefaultLocalEnv EXCEPT !.dirs = <<DirItem(FALSE, FALSE, <<"in">>)>>]
    IN { [MkEnv(in_dir, DefaultRemoteEnv) EXCEPT !.http_max_retries = n] :
           n \in {-1, MaxClientRetries} }

GeneratorInit ==
    /\ env \in GeneratorEnvs
    /\ client = NewClient(env)
    /\ pc = "idle"
    /\ ref = EmptyRef
    /\ result = NoneResult
    /\ reads = {}
    /\ requests = <<>>
    /\ resp = NoResp
    /\ buf = NoBuf
    /\ rt = NoCall
    /\ job = NoJob
    /\ now = 0
    /\ gen = NoGen
    /\ threads = NoThreads
    /\ files = NoFiles

GeneratorNext ==
    \/ \E has_handler \in BOOLEAN, balance \in -1..1,
          max_retries \in 0..MaxGeneratorRetries,
          backoff_base \in BackoffBases, image_url \in GeneratorRefs :
           GeneratorGenerateImage(has_handler, balance, max_retries,
                                  backoff_base, image_url)
    \/ GeneratorGenerateImage(FALSE, 0, MaxGeneratorRetries + 1, Seconds(3, 2),
                              EmptyRef)
    \/ ProviderGenerateImage(1, 1)
    \/ ResolveImageUrl(TRUE)
    \/ CandidatesBuilt
    \/ Submit
    \/ Answered("submitted", GeneratorPostOutcomes)
    \/ Submitted
    \/ PollCheck
    \/ Answered("polling", GeneratorPollOutcomes)
    \/ SleepWithJitter(0)
    \/ LoopExhausted
    \/ Polled
    \/ PollSleep
    \/ ProviderReturned
    \/ \E o \in DownloadOutcomes, write_ok \in BOOLEAN : SaveImage(o, <<1>>, write_ok)
    \/ \E sent \in BOOLEAN, ok \in BOOLEAN : UseCredit(sent, ok)
    \/ \E up \in BOOLEAN : RetrySleep(up)

SpecGenerator == GeneratorInit /\ [][GeneratorNext]_vars

----------------------------------------------------------------------------
(* generate_image calls of several threads of one process, sharing the     *)
(* output directory: _save_image step by step.  Each call makes one        *)
(* attempt (max_retries = 1) and has no payment handler.                   *)

\* the bytes served at a URL
ContentAt(url) == <<url>>

\* the result URL of the job of thread t
ResultUrl(t) == IF t = 1 THEN "r1" ELSE "r2"

\* lines 144-154: the provider call of thread t has returned url, and
\* _save_image(url) is called
SaveImageCalled(t, url) ==
    /\ threads[t].pc = "idle"
    /\ threads' = [threads EXCEPT ![t].pc = "save", ![t].url = url]
    /\ UNCHANGED <<resolverVars, rt, job, now, gen, files>>

\* lines 175-176: the file name is made from the clock
SaveImageNamed(t) ==
    /\ threads[t].pc = "save"
    /\ threads' = [threads EXCEPT ![t].pc = "named",
                                  ![t].file_path = FileName(now)]
    /\ UNCHANGED <<resolverVars, rt, job, now, gen, files>>

\* lines 178-179: requests.get and raise_for_status; lines 161-169: the
\* only attempt has failed
SaveImageGot(t, o) ==
    /\ threads[t].pc = "named"
    /\ threads' = IF Ok(o)
                  THEN [threads EXCEPT ![t].pc = "got",
                                       ![t].content = ContentAt(threads[t].url)]
                  ELSE [threads EXCEPT ![t].pc = "raised",
                                       ![t].raised = "RuntimeError"]
    /\ UNCHANGED <<resolverVars, rt, job, now, gen, files>>

\* lines 181-183 and 159: write_bytes, and generate_image returns
SaveImageWritten(t) ==
    /\ threads[t].pc = "got"
    /\ files' = [files EXCEPT ![threads[t].file_path] = threads[t].content]
    /\ threads' = [threads EXCEPT
                     ![t].pc = "returned",
                     ![t].returned = ImageResult(threads[t].url,
                                                 threads[t].file_path)]
    /\ UNCHANGED <<resolverVars, rt, job, now, gen>>

\* the clock advances
ClockTick ==
    /\ now < MaxTime
    /\ now' = now + 1
    /\ UNCHANGED <<resolverVars, rt, job, gen, saveVars>>

ConcurrentNext ==
    \/ \E t \in Threads : SaveImageCalled(t, ResultUrl(t))
    \/ \E t \in Threads : SaveImageNamed(t)
    \/ \E t \in Threads, o \in DownloadOutcomes : SaveImageGot(t, o)
    \/ \E t \in Threads : SaveImageWritten(t)
    \/ ClockTick

SpecConcurrent == GeneratorInit /\ [][ConcurrentNext]_vars

----------------------------------------------------------------------------
(* Properties of the Image Input Resolver *)

\* p is root or a descendant of one of roots
UnderSomeRoot(roots, p) ==
    \E i \in 1..Len(roots) :
        Len(roots[i]) <= Len(p) /\ \A k \in 1..Len(roots[i]) : p[k] = roots[i][k]

\* the reference is written as a local path or file:// URI that can be
\* canonicalized
NamesLocalPath(r) ==
    /\ r.form \in {"path", "fileuri"}
    /\ ~UrlParseRaises(r.host)
    /\ \A i \in 1..Len(r.segs) : r.segs[i] # NulSeg

StartsWith(data, magic) ==
    Len(data) >= Len(magic) /\ \A k \in 1..Len(magic) : data[k] = magic[k]

\* base64 decoding of a padded sequence of sextets, as a consumer of the
\* data URL does it
RECURSIVE B64Decode(_)
B64Decode(enc) ==
    IF Len(enc) < 4 THEN <<>>
    ELSE LET a == enc[1]
             b == enc[2]
             c == enc[3]
             d == enc[4]
             rest == SubSeq(enc, 5, Len(enc))
         IN IF c = Pad THEN << a * 4 + b \div 16 >>
            ELSE IF d = Pad THEN << a * 4 + b \div 16, (b % 16) * 16 + c \div 4 >>
            ELSE << a * 4 + b \div 16, (b % 16) * 16 + c \div 4, (c % 4) * 64 + d >>
                 \o B64Decode(rest)

\* the host of a requested URL as the checks see it
CheckedHost(u) == RStripDots(Lower(Strip(Hostname(u.host))))

\* C1: a local path or file:// reference whose canonical path is outside
\* every allowed root resolves to None, and no file is read on its behalf,
\* whether or not the file exists and holds a valid image.
C1_OutsideRootsRejected ==
    (pc # "idle" /\ NamesLocalPath(ref)
        /\ ~UnderSomeRoot(client.allowed_input_roots, CanonicalOf(env, ref)))
    => /\ reads = {}
       /\ pc = "done"
       /\ result = NoneResult

\* C1 witness: an existing PNG outside the roots, reached through "..",
\* was asked for and refused.
C1_Witness ==
    /\ pc = "done"
    /\ ref = PathRef(FALSE, <<"in", "..", "..", "o", "b.png">>)
    /\ CanonicalOf(env, ref) = <<"o", "b.png">>
    /\ StartsWith(FileBytes(CanonicalOf(env, ref)), PNGMagic)
    /\ ~UnderSomeRoot(client.allowed_input_roots, CanonicalOf(env, ref))
    /\ result = NoneResult
    /\ reads = {}

\* C2: every URL an HTTP request was issued to, the first and each
\* redirect hop, passes the remote-URL checks.
C2_OnlyAllowedHostsRequested ==
    \A i \in 1..Len(requests) :
        IsAllowedRemoteImageUrl(client.allowed_url_hosts, requests[i])

\* C3: when the fetch was redirected and the final URL's host is outside
\* the allowlist, nothing of the body is buffered and the call returns None.
C3_RedirectOutsideAllowlistRejected ==
    (Len(requests) > 1
        /\ ~HostMatchesAllowlist(client.allowed_url_hosts,
                                 CheckedHost(requests[Len(requests)])))
    => /\ pc \in {"fetching", "done"}
       /\ buf = NoBuf
       /\ (pc = "done" => result = NoneResult)

\* C3 witness: the reference's host was allowed, the last hop's is not,
\* and the call has returned None.
C3_Witness ==
    /\ pc = "done"
    /\ Len(requests) > 1
    /\ HostMatchesAllowlist(client.allowed_url_hosts, CheckedHost(requests[1]))
    /\ requests[Len(requests)] = Url("https", HostEvil, "x.png")
    /\ ~HostMatchesAllowlist(client.allowed_url_hosts,
                             CheckedHost(requests[Len(requests)]))
    /\ result = NoneResult

\* the reference is neither inline data nor an allowed local file
NotInlineNotLocal ==
    /\ pc # "idle"
    /\ ref.form # "inline"
    /\ ResolveLocalPath(env, client.allowed_input_roots, ref).kind = "none"

\* C4: for a reference that is neither inline nor an allowed local file,
\* the call returns None without any fetch when remote fetch is disabled,
\* when the allowlist is empty or when the scheme is not https, and returns
\* None when the host is a private or loopback IP literal.
C4_RemoteGates ==
    NotInlineNotLocal =>
        /\ (~client.allow_remote_url \/ client.allowed_url_hosts = <<>>
                \/ ref.scheme # "https")
           => (pc = "done" /\ result = NoneResult /\ requests = <<>>)
        /\ (CheckedHost(UrlOf(ref)) \in {IpPrivate, IpLoopback, <<":", ":", "1">>})
           => (pc = "done" /\ result = NoneResult)

\* C4 witness: remote fetch is enabled but no allowlist is configured, and
\* an https URL was refused without a request.
C4_Witness ==
    /\ pc = "done"
    /\ ref = UrlRef("https", HostAB, "x.png")
    /\ client.allow_remote_url
    /\ ~env.disable_fallback
    /\ client.allowed_url_hosts = <<>>
    /\ result = NoneResult
    /\ requests = <<>>

\* C5: with the wildcard "*" in the allowlist, no request is ever issued
\* to a URL whose host is empty, localhost, 0.0.0.0, *.local or a blocked
\* IP literal.
C5_BlockedHostNeverFetched ==
    (\E p \in 1..Len(client.allowed_url_hosts) : client.allowed_url_hosts[p] = <<"*">>)
    => \A i \in 1..Len(requests) : ~IsBlockedHost(CheckedHost(requests[i]))

\* C6: no request is ever issued to a host that does not match the
\* allowlist.
C6_NonMatchingHostNeverFetched ==
    \A i \in 1..Len(requests) :
        HostMatchesAllowlist(client.allowed_url_hosts, CheckedHost(requests[i]))

\* C7: the call never raises.
C7_NeverRaises == result.kind # "raised"

\* C8: a readable file under an allowed root that starts with the PNG
\* magic and is at most max_payload_bytes long resolves to
\* data:image/png;base64,<payload>, and the payload decodes to its bytes.
C8_LocalPngRoundTrip ==
    (pc = "done" /\ NamesLocalPath(ref)
        /\ CanonicalOf(env, ref) \in Files
        /\ CanonicalOf(env, ref) \in reads
        /\ UnderSomeRoot(client.allowed_input_roots, CanonicalOf(env, ref))
        /\ StartsWith(FileBytes(CanonicalOf(env, ref)), PNGMagic)
        /\ Len(FileBytes(CanonicalOf(env, ref))) <= client.max_payload_bytes)
    => /\ result.kind = "data"
       /\ result.mime = Mime("image", "png")
       /\ B64Decode(result.payload) = FileBytes(CanonicalOf(env, ref))

\* C8 witness: the PNG of exactly max_payload_bytes, named by its path,
\* came back as a data URL.
C8_Witness ==
    /\ pc = "done"
    /\ ref.form = "path"
    /\ CanonicalOf(env, ref) = <<"w", "in", "max.png">>
    /\ Len(FileBytes(CanonicalOf(env, ref))) = client.max_payload_bytes
    /\ CanonicalOf(env, ref) \in reads
    /\ result.kind = "data"

\* C9: whatever the call builds from a file or a response is a data URL
\* with an image/* type whose payload decodes to between 1 and
\* max_payload_bytes bytes.
C9_BuiltDataUrlWellFormed ==
    (pc = "done" /\ ref.form # "inline" /\ result.kind = "data")
    => /\ result.mime.major = "image"
       /\ Len(B64Decode(result.payload)) \in 1..client.max_payload_bytes
       /\ (reads # {} \/ requests # <<>>)

\* C9 witness: a data URL built from a remote response whose header named
\* no image type.
C9_Witness ==
    /\ pc = "done"
    /\ requests # <<>>
    /\ ~IsImageType(resp.content_type)
    /\ result.kind = "data"
    /\ Len(B64Decode(result.payload)) = client.max_payload_bytes

\* C10: allowed_input_roots never contains a filesystem root.
C10_NoFilesystemRoot ==
    \A i \in 1..Len(client.allowed_input_roots) :
        Parent(client.allowed_input_roots[i]) # client.allowed_input_roots[i]

\* C11: unless SOCICLAW_ALLOW_ABSOLUTE_IMAGE_INPUT_DIRS is set, every entry
\* of allowed_input_roots is the working directory or lies below it,
\* whatever SOCICLAW_ALLOWED_IMAGE_INPUT_DIRS holds.
C11_RootsUnderCwd ==
    ~env.allow_absolute
    => \A i \in 1..Len(client.allowed_input_roots) :
           IsPrefix(env.cwd, client.allowed_input_roots[i])

\* C11, with no symbolic link anywhere: the same statement for the
\* environments whose paths are all canonical as written.
C11_RootsUnderCwdNoLinks ==
    (~env.allow_absolute /\ env.links = NoLinks)
    => \A i \in 1..Len(client.allowed_input_roots) :
           IsPrefix(env.cwd, client.allowed_input_roots[i])

----------------------------------------------------------------------------
(* Properties of the Retry Transport *)

\* every session.request call so far returned a retryable status
AlwaysRetryableStatus ==
    \A i \in 1..Len(rt.calls) :
        /\ rt.calls[i].kind = "response"
        /\ rt.calls[i].status \in RetryableStatuses(rt.retry_statuses)

\* every session.request call so far raised a requests.RequestException
AlwaysRequestException ==
    \A i \in 1..Len(rt.calls) : IsRequestException(rt.calls[i])

\* C12: with max_retries = n >= 0 and a session that returns a retryable
\* status on every call, request_with_retry never raises, makes at most
\* n+1 calls, and returns exactly when it has made n+1, the response
\* returned being that of the last call.
C12_AlwaysRetryableCalledNPlus1 ==
    (rt.pc # "idle" /\ rt.max_retries >= 0 /\ AlwaysRetryableStatus)
    => /\ rt.pc # "raised"
       /\ Len(rt.calls) <= rt.max_retries + 1
       /\ (rt.pc = "returned" <=> Len(rt.calls) = rt.max_retries + 1)
       /\ (rt.pc = "returned" => rt.returned = rt.calls[Len(rt.calls)])

\* C12 witness: three 503 responses with max_retries = 2, the third one
\* returned.
C12_Witness ==
    /\ rt.pc = "returned"
    /\ rt.max_retries = 2
    /\ Len(rt.calls) = 3
    /\ AlwaysRetryableStatus
    /\ rt.returned = Response(503)

\* C13: with max_retries = n >= 0 and a session that raises a
\* RequestException on every call, request_with_retry never returns, makes
\* at most n+1 calls, and raises exactly when it has made n+1, the error
\* raised being that of the last call.
C13_AlwaysFailingCalledNPlus1 ==
    (rt.pc # "idle" /\ rt.max_retries >= 0 /\ AlwaysRequestException)
    => /\ rt.pc # "returned"
       /\ Len(rt.calls) <= rt.max_retries + 1
       /\ (rt.pc = "raised" <=> Len(rt.calls) = rt.max_retries + 1)
       /\ (rt.pc = "raised" => /\ rt.raised_at = Len(rt.calls)
                               /\ rt.raised = rt.calls[Len(rt.calls)])

\* C13 witness: a timeout and then a connection error with max_retries = 1;
\* the connection error is raised.
C13_Witness ==
    /\ rt.pc = "raised"
    /\ rt.max_retries = 1
    /\ rt.calls = <<Raises("Timeout"), Raises("ConnectionError")>>
    /\ rt.raised = Raises("ConnectionError")
    /\ rt.raised_at = 2

\* C14: a response whose status is not retryable is the last call of
\* request_with_retry and is what it returns; no sleep follows it.
C14_NonRetryableReturnedAsIs ==
    \A i \in 1..Len(rt.calls) :
        (rt.calls[i].kind = "response"
            /\ rt.calls[i].status \notin RetryableStatuses(rt.retry_statuses))
        => /\ i = Len(rt.calls)
           /\ rt.pc = "returned"
           /\ rt.returned = rt.calls[i]
           /\ Len(rt.sleeps) = i - 1

\* C14 witness: a 503 was retried, then a 404 came back with an attempt
\* still left and was returned.
C14_Witness ==
    /\ rt.pc = "returned"
    /\ rt.max_retries = 2
    /\ rt.retry_statuses = NoStatuses
    /\ rt.calls = <<Response(503), Response(404)>>
    /\ rt.returned = Response(404)
    /\ Len(rt.sleeps) = 1

\* C15: the sleep after failed attempt a lasts backoff_base * 2^a plus a
\* jitter between 0 and min(0.25 s, a fifth of that delay).
C15_SleepIsBaseTimesPow2 ==
    \A i \in 1..Len(rt.sleeps) :
        LET s == rt.sleeps[i]
            d == rt.backoff_base_seconds * Pow2(i - 1)
        IN /\ s.attempt = i - 1
           /\ s.slept - s.jitter = d
           /\ s.jitter >= 0
           /\ s.jitter <= 250
           /\ 5 * s.jitter <= d

\* C15 as amended: the sleep after failed attempt a lasts
\* max(0.05 s, backoff_base) * 2^a plus a jitter between 0 and
\* min(0.25 s, a fifth of that delay).
C15_SleepIsFlooredBaseTimesPow2 ==
    \A i \in 1..Len(rt.sleeps) :
        LET s == rt.sleeps[i]
            b == IF rt.backoff_base_seconds < 50 THEN 50 ELSE rt.backoff_base_seconds
            d == b * Pow2(i - 1)
        IN /\ s.attempt = i - 1
           /\ s.slept - s.jitter = d
           /\ s.jitter >= 0
           /\ s.jitter <= 250
           /\ 5 * s.jitter <= d

\* C15 witness: with a base of 10 ms, the second sleep lasted 100 ms plus
\* the largest jitter, 20 ms.
C15_Witness ==
    /\ rt.backoff_base_seconds = 10
    /\ Len(rt.sleeps) = 2
    /\ rt.sleeps[2].slept = 120

\* C16: within one call each sleep is at least as long as the one before,
\* and the jitter of each sleep is between 0 and a quarter of that sleep's
\* backoff delay.
C16_BackoffNonDecreasing ==
    /\ \A i \in 1..Len(rt.sleeps), j \in 1..Len(rt.sleeps) :
           i < j => rt.sleeps[i].slept <= rt.sleeps[j].slept
    /\ \A i \in 1..Len(rt.sleeps) :
           /\ rt.sleeps[i].jitter >= 0
           /\ 4 * rt.sleeps[i].jitter <= rt.sleeps[i].delay

\* C16 witness: two sleeps, the first with the largest jitter and the
\* second with none.
C16_Witness ==
    /\ Len(rt.sleeps) = 2
    /\ rt.sleeps[1].jitter = JitterBound(rt.sleeps[1].delay)
    /\ rt.sleeps[1].jitter > 0
    /\ rt.sleeps[2].jitter = 0

----------------------------------------------------------------------------
(* Properties of the Job Client *)

\* the response is a 400 or 422 whose body text names an image-input problem
ImageInputShaped(o) ==
    /\ o.kind = "response"
    /\ o.status \in {400, 422}
    /\ \E token \in ImageInputTokens : IsSubstring(token, Lower(o.body.text))

\* the response is not a success
NonSuccess(o) == o.kind = "response" /\ o.status >= 400 /\ o.status < 600

\* C17: when the image reference resolved to a data URL, the first
\* submission carries no image_data_url, every later submission carries one
\* and follows a 400 or 422 with an image-input-shaped body, and any other
\* non-success response is raised as the HTTP error of the call with no
\* submission after it: after exactly one submission when it answers the
\* first.
C17_AlternatePayloadOnlyAfterImageInputError ==
    (job.entry = "generate_image" /\ job.args.image_url.form # "empty"
        /\ job.pc \notin {"idle", "resolve"} /\ result.kind = "data")
    => /\ \A k \in 1..Len(job.submissions) :
              IF k = 1 THEN job.submissions[k].image_data_url = NoneResult
              ELSE /\ job.submissions[k].image_data_url = result
                   /\ ImageInputShaped(job.responses[k - 1])
       /\ \A k \in 1..Len(job.responses) :
              (NonSuccess(job.responses[k]) /\ ~ImageInputShaped(job.responses[k]))
              => /\ job.pc = "raised"
                 /\ job.raised = Error("HTTPError", job.responses[k], NoBody)
                 /\ Len(job.submissions) = k

\* C17 witness: a resolvable reference, a 422 naming the image, a second
\* submission, a 401, and the error raised after these two submissions.
C17_Witness ==
    /\ job.pc = "raised"
    /\ result.kind = "data"
    /\ Len(job.payload_candidates) = 3
    /\ Len(job.submissions) = 2
    /\ job.submissions[2].image_data_url = result
    /\ job.responses[1].status = 422
    /\ job.responses[2].status = 401

\* the status of a polled payload, lower-cased
LowerStatus(k) == Lower(job.statuses[k])

\* the status of a polled payload as wait_for_job compares it
ComparedStatus(k) == Strip(Lower(job.statuses[k]))

Failed == <<"f", "a", "i", "l", "e", "d">>
Canceled == <<"c", "a", "n", "c", "e", "l", "e", "d">>

\* the result URL a completed payload gives
ResultUrlOf(payload) ==
    IF payload.result_url # "" THEN payload.result_url ELSE payload.url

\* wait_for_job raised the job-failure error carrying the last payload
RaisedJobFailure ==
    job.pc = "raised" /\ job.raised = Error("RuntimeError", NoOutcome, job.last)

\* C18: of the statuses wait_for_job has observed only the last can be
\* terminal; if it is 'completed' the call returned a result with status
\* completed and the payload's result_url or else url; if it is 'failed' or
\* 'canceled' the call raised the job-failure error carrying the payload;
\* while any other status is the last observed the call has neither
\* returned nor raised that error.
C18_FirstTerminalStatusDecides ==
    job.entry = "wait_for_job" =>
    \A k \in 1..Len(job.statuses) :
        LET last_one == (k = Len(job.statuses))
        IN IF LowerStatus(k) = Completed
           THEN /\ last_one
                /\ job.pc = "returned"
                /\ job.waited = ImageJobResult(job.job_id, Completed,
                                               ResultUrlOf(job.last), job.last)
           ELSE IF LowerStatus(k) \in {Failed, Canceled}
           THEN last_one /\ RaisedJobFailure
           ELSE last_one => /\ job.pc # "returned"
                            /\ job.waited = NoJobResult
                            /\ ~RaisedJobFailure

\* C18 as amended: the same with the status compared lower-cased and
\* stripped of surrounding whitespace, and with 'failed', 'error',
\* 'canceled' and 'cancelled' as the statuses that raise.
C18_FirstTerminalStatusDecidesAmended ==
    job.entry = "wait_for_job" =>
    \A k \in 1..Len(job.statuses) :
        LET last_one == (k = Len(job.statuses))
        IN IF ComparedStatus(k) = Completed
           THEN /\ last_one
                /\ job.pc = "returned"
                /\ job.waited = ImageJobResult(job.job_id, Completed,
                                               ResultUrlOf(job.last), job.last)
           ELSE IF ComparedStatus(k) \in
                     {Failed, <<"e", "r", "r", "o", "r">>, Canceled,
                      <<"c", "a", "n", "c", "e", "l", "l", "e", "d">>}
           THEN last_one /\ RaisedJobFailure
           ELSE last_one => /\ job.pc # "returned"
                            /\ job.waited = NoJobResult
                            /\ ~RaisedJobFailure

\* C18 witness: a payload in progress, then one completed with only 'url'
\* set, returned as completed with that URL.
C18_Witness ==
    /\ job.entry = "wait_for_job"
    /\ job.pc = "returned"
    /\ Len(job.statuses) = 2
    /\ job.statuses[2] = <<"c", "o", "m", "p", "l", "e", "t", "e", "d">>
    /\ job.last.result_url = ""
    /\ job.waited.result_url = "u"

\* every payload polled so far was in progress, and no request failed
OnlyInProgressObserved ==
    /\ Len(job.statuses) = Len(job.polls)
    /\ \A k \in 1..Len(job.statuses) :
           ComparedStatus(k) \notin {Completed} \cup FailedStatuses

\* At every moment of wait_for_job: no get_job call started at or after
\* the deadline; a timeout error is raised only at or after the deadline
\* and carries the last payload; and when only payloads in progress were
\* observed the call does not return, and raises nothing but the timeout
\* error.
C19_DeadlineRespected ==
    job.entry = "wait_for_job" =>
        /\ \A k \in 1..Len(job.polls) : job.polls[k] < job.deadline
        /\ (job.pc = "raised" /\ job.raised.type = "TimeoutError")
           => /\ now >= job.deadline
              /\ job.raised = Error("TimeoutError", NoOutcome, job.last)
        /\ OnlyInProgressObserved
           => /\ job.pc # "returned"
              /\ job.pc = "raised" => job.raised.type = "TimeoutError"

\* C19: wait_for_job always stops, it starts no get_job call at or after
\* the deadline, and when no terminal status was observed it ends in the
\* timeout error, raised at or after the deadline and carrying the last
\* payload.
C19_PollingTerminates ==
    /\ []C19_DeadlineRespected
    /\ (job.pc = "poll") ~> (job.pc \in {"returned", "raised"})

\* C19 witness: two payloads in progress, then the timeout error at the
\* deadline carrying the second.
C19_Witness ==
    /\ job.entry = "wait_for_job"
    /\ job.pc = "raised"
    /\ job.raised.type = "TimeoutError"
    /\ Len(job.polls) = 2
    /\ OnlyInProgressObserved
    /\ job.raised.payload = job.last
    /\ job.last.status = <<"r", "u", "n", "n", "i", "n", "g">>

----------------------------------------------------------------------------
(* Properties of the Generation Orchestrator *)

\* the call made nothing happen outside the generator: the provider was not
\* called, nothing was downloaded or written, and no debit was asked for
NothingDone ==
    /\ gen.provider_calls = 0
    /\ gen.jobs = <<>>
    /\ job = NoJob
    /\ rt = NoCall
    /\ requests = <<>>
    /\ gen.downloads = <<>>
    /\ gen.writes = <<>>
    /\ gen.use_credit_calls = 0
    /\ gen.debits = 0

\* C20: a generate_image call for which check_credits returned a value <= 0
\* has raised the insufficient-credit error, and the provider's
\* generate_image was never called, nothing was downloaded, no file was
\* written and no credit was debited.
C20_NoCreditsNothingDone ==
    (gen.pc # "idle" /\ gen.credits <= 0)
    => /\ gen.pc = "raised"
       /\ gen.raised = GeneratorError("ValueError", NoError)
       /\ NothingDone

\* C20 witness: a call with a payment handler and a balance of zero has
\* raised.
C20_Witness ==
    /\ gen.pc = "raised"
    /\ gen.has_handler
    /\ gen.credits = 0
    /\ gen.max_retries > 0
    /\ gen.raised.type = "ValueError"

\* the _save_image calls of the generate_image call that returned
SuccessfulSaves == { k \in 1..Len(gen.saves) : gen.saves[k].ok }

\* C21: in a generate_image call with a payment handler, use_credit is
\* called at most once and never more often than _save_image has returned;
\* it was called exactly once when the call returns a result; and a call
\* that has raised with no successful save has debited nothing.
C21_DebitOnceAfterSave ==
    gen.has_handler =>
        /\ gen.use_credit_calls <= 1
        /\ gen.use_credit_calls <= Cardinality(SuccessfulSaves)
        /\ gen.pc = "returned" => gen.use_credit_calls = 1
        /\ (gen.pc = "raised" /\ SuccessfulSaves = {})
           => gen.use_credit_calls = 0 /\ gen.debits = 0

\* C22: once a _save_image call has failed (the download or the write),
\* the generate_image call has raised and has made no provider call after
\* the one whose result it was saving: no new job is created.
C22_SaveFailureNotRetried ==
    \A k \in 1..Len(gen.saves) :
        ~gen.saves[k].ok
        => /\ gen.pc = "raised"
           /\ gen.provider_calls = gen.saves[k].call
           /\ job = NoJob

\* job j ended in a contract violation: a submit response that is ok and
\* carries neither job_id nor id, or a completed payload with neither
\* result_url nor url
MissingJobId(j) ==
    /\ j.pc = "raised"
    /\ j.job_id = ""
    /\ j.responses # <<>>
    /\ LET r == j.responses[Len(j.responses)]
       IN r.kind = "response" /\ Ok(r) /\ r.body.json_ok
          /\ r.body.job_id = "" /\ r.body.id = ""

CompletedWithoutUrl(j) ==
    /\ j.pc = "raised"
    /\ j.waited # NoJobResult
    /\ j.waited.result_url = ""

ContractViolation(j) == MissingJobId(j) \/ CompletedWithoutUrl(j)

\* no job was submitted after the k-th provider call of the generate_image
\* call
NoSubmissionAfter(k) ==
    /\ \A m \in (k + 1)..Len(gen.jobs) : gen.jobs[m].submissions = <<>>
    /\ job.submissions = <<>>

\* C23: once a provider call of a generate_image call has ended in a
\* contract violation, the call submits no further job.
C23_ContractViolationNotRetried ==
    \A k \in 1..Len(gen.jobs) :
        ContractViolation(gen.jobs[k]) => NoSubmissionAfter(k)

\* the first submission of job j was answered with a client error that
\* neither the transport retries nor create_job answers with an alternate
\* payload
ClientErrorOnSubmit(j) ==
    /\ j.responses # <<>>
    /\ LET r == j.responses[1]
       IN /\ r.kind = "response"
          /\ 400 <= r.status /\ r.status < 500
          /\ r.status \notin DEFAULT_RETRY_STATUSES
          /\ ~ShouldRetryWithAlternatePayload(r)

\* C24: a provider call whose submission met such a client error made
\* that one submission only, and the generate_image call submits no
\* further job: the first such error leaves one submit request in all.
C24_ClientErrorNotRetried ==
    \A k \in 1..Len(gen.jobs) :
        ClientErrorOnSubmit(gen.jobs[k])
        => /\ Len(gen.jobs[k].submissions) = 1
           /\ NoSubmissionAfter(k)

RECURSIVE Power(_, _)
Power(b, n) == IF n = 0 THEN 1 ELSE b * Power(b, n - 1)

\* the delay before attempt k + 1: 1.0 * backoff_base^(k - 1) seconds
DelayBefore(k) ==
    Seconds(Power(gen.backoff_base.num, k - 1), Power(gen.backoff_base.den, k - 1))

\* the generate_image call has used up its attempts: it raised the
\* RuntimeError of line 169
Exhausted == gen.pc = "raised" /\ gen.raised.type = "RuntimeError"

\* C25: at every moment of a generate_image call the provider was called
\* at most max_retries times, one sleep lies between two consecutive
\* attempts and the k-th sleep lasts backoff_base^(k - 1) seconds.  When
\* every attempt failed the provider was called exactly max_retries times,
\* no sleep followed the last attempt, and the RuntimeError raised wraps
\* the exception of the last attempt.  When the call returns, the attempt
\* that succeeded was the last one.
C25_AttemptsAndBackoff ==
    /\ gen.provider_calls <= gen.max_retries
    /\ \A k \in 1..Len(gen.sleeps) : gen.sleeps[k] = DelayBefore(k)
    /\ gen.provider_calls > 0
       => Len(gen.sleeps) \in {gen.provider_calls - 1, gen.provider_calls}
    /\ Exhausted
       => /\ gen.provider_calls = gen.max_retries
          /\ Len(gen.jobs) = gen.max_retries
          /\ Len(gen.sleeps) = Max(gen.max_retries - 1, 0)
          /\ gen.raised.cause = gen.last_error
          /\ gen.max_retries > 0
             => /\ gen.last_error # NoError
                /\ gen.jobs[Len(gen.jobs)].pc = "raised"
                   => gen.last_error = gen.jobs[Len(gen.jobs)].raised
    /\ gen.pc = "returned"
       => /\ Len(gen.jobs) = gen.provider_calls
          /\ gen.jobs[Len(gen.jobs)].pc = "returned"
          /\ gen.returned.url = gen.jobs[Len(gen.jobs)].returned
          /\ Len(gen.sleeps) = gen.provider_calls - 1

\* C25 witness: a call with max_retries = MaxGeneratorRetries + 1 and
\* backoff_base 1.5 has failed every attempt: the second sleep lasted 1.5
\* seconds.
C25_Witness ==
    /\ Exhausted
    /\ gen.max_retries = MaxGeneratorRetries + 1
    /\ Len(gen.sleeps) = MaxGeneratorRetries
    /\ gen.sleeps[2] = Seconds(3, 2)
    /\ gen.provider_calls = gen.max_retries

\* job j was created upstream and none of the payloads polled for it
\* showed a terminal status: it may still be running
InFlight(j) ==
    /\ j.job_id # ""
    /\ \A k \in 1..Len(j.statuses) :
           Strip(Lower(j.statuses[k])) \notin {Completed} \cup FailedStatuses

\* C26: a generate_image call submits no job while a job of an earlier
\* attempt of the same call is in flight.
C26_OneJobInFlight ==
    \A k \in 1..Len(gen.jobs) :
        InFlight(gen.jobs[k]) => NoSubmissionAfter(k)

\* C27: two generate_image calls of concurrent threads that have returned
\* did not write the same file, and the file at each returned local_path
\* holds the bytes served at that call's own url.
C27_IndependentFiles ==
    /\ \A t, u \in Threads :
           (t # u /\ threads[t].pc = "returned" /\ threads[u].pc = "returned")
           => threads[t].returned.local_path # threads[u].returned.local_path
    /\ \A t \in Threads :
           threads[t].pc = "returned"
           => files[threads[t].returned.local_path]
                  = ContentAt(threads[t].returned.url)

----------------------------------------------------------------------------
(* Properties of inline references and of the payload negotiation *)

\* C28 as claimed: an inline reference is returned exactly as it was
\* given, and nothing was read from the filesystem or requested from the
\* network.
C28_InlineReturnedUnchanged ==
    (pc = "done" /\ ref.form = "inline")
    => /\ result = ref.data
       /\ reads = {}
       /\ requests = <<>>

\* C28: an inline reference is returned with the whitespace after it
\* stripped and otherwise as it was given, whatever its size and type, and
\* nothing was read from the filesystem or requested from the network.
C28_InlineReturnedStripped ==
    (pc = "done" /\ ref.form = "inline")
    => /\ result = StripDataUrl(ref.data)
       /\ result.mime = ref.data.mime
       /\ \A i \in 1..Len(result.payload) : result.payload[i] = ref.data.payload[i]
       /\ \A i \in (Len(result.payload) + 1)..Len(ref.data.payload) :
              ref.data.payload[i] = Whitespace
       /\ result.payload = <<>> \/ result.payload[Len(result.payload)] # Whitespace
       /\ reads = {}
       /\ requests = <<>>

\* C28 witness: an inline reference of an unknown image type and beyond
\* the size limit was returned as it was.
C28_Witness ==
    /\ pc = "done"
    /\ ref.form = "inline"
    /\ ref.data.mime = Mime("image", "x")
    /\ Len(ref.data.payload) > client.max_payload_bytes
    /\ result = ref.data

\* C29: create_job submits its payloads in a fixed order: first the
\* original image_url alone, then image_url together with image_data_url,
\* then image_data_url without image_url.  A later payload is submitted
\* only after every earlier one was answered with an image-input-shaped
\* 400 or 422, there are at most three submissions, and when the third is
\* answered with a failure too the call raises the HTTP error of that
\* response.
C29_PayloadOrder ==
    job.entry = "generate_image"
    => LET n == Len(job.submissions)
       IN /\ n <= 3
          /\ n >= 1 => /\ job.submissions[1].image_url = job.args.image_url
                       /\ job.submissions[1].image_data_url = NoneResult
          /\ n >= 2 => /\ job.args.image_url.form # "empty"
                       /\ job.submissions[2].image_url = job.args.image_url
                       /\ job.submissions[2].image_data_url.kind = "data"
                       /\ job.submissions[2].image_data_url = result
          /\ n >= 3 => /\ job.submissions[3].image_url = EmptyRef
                       /\ job.submissions[3].image_data_url = result
          /\ \A k \in 1..n :
                 /\ job.submissions[k].prompt = "prompt"
                 /\ job.submissions[k].webhook_url = job.args.webhook_url
                 /\ job.submissions[k].user_id = job.args.user_id
                 /\ \A i \in 1..(k - 1) : ImageInputShaped(job.responses[i])
          /\ (Len(job.responses) = 3 /\ NonSuccess(job.responses[3]))
             => /\ job.pc = "raised"
                /\ job.raised = Error("HTTPError", job.responses[3], NoBody)

\* C29 witness: three submissions, each answered with an image-input-shaped
\* 400 or 422, and the HTTP error of the third response raised.
C29_Witness ==
    /\ job.entry = "generate_image"
    /\ Len(job.submissions) = 3
    /\ Len(job.responses) = 3
    /\ \A k \in 1..3 : ImageInputShaped(job.responses[k])
    /\ job.submissions[2].image_url = job.args.image_url
    /\ job.submissions[3].image_url = EmptyRef
    /\ job.pc = "raised"
    /\ job.raised.type = "HTTPError"

\* C30: when the resolver returned None for the image reference given,
\* create_job still submits the job, with the original reference in
\* image_url and no image_data_url; it makes that one submission only, and
\* any response that is not a success, an image-input-shaped 400 or 422
\* included, is raised as the HTTP error of the call.  Without an image
\* reference the one submission carries no image field.
C30_SingleSubmissionWithoutDataUrl ==
    (job.entry = "generate_image" /\ job.pc \notin {"idle", "resolve"}
        /\ result = NoneResult)
    => /\ Len(job.payload_candidates) = 1
       /\ job.submissions = <<>> => job.pc = "submit"
       /\ Len(job.submissions) <= 1
       /\ \A k \in 1..Len(job.submissions) :
              /\ job.submissions[k].image_url = job.args.image_url
              /\ job.submissions[k].image_data_url = NoneResult
              /\ job.args.image_url = EmptyRef
                 => job.submissions[k].image_url.form = "empty"
       /\ \A k \in 1..Len(job.responses) :
              NonSuccess(job.responses[k])
              => /\ job.pc = "raised"
                 /\ job.raised = Error("HTTPError", job.responses[k], NoBody)

\* C30 witness: a reference the resolver answered None for, submitted as
\* it was given, answered with an image-input-shaped 422, and that error
\* raised after the one submission.
C30_Witness ==
    /\ job.entry = "generate_image"
    /\ job.args.image_url.form \notin {"empty", "blank"}
    /\ pc = "done"
    /\ result = NoneResult
    /\ Len(job.submissions) = 1
    /\ job.submissions[1].image_url = job.args.image_url
    /\ Len(job.responses) = 1
    /\ ImageInputShaped(job.responses[1])
    /\ job.pc = "raised"
    /\ job.raised = Error("HTTPError", job.responses[1], NoBody)

----------------------------------------------------------------------------
(* Properties of the job identifier and of the result URL *)

\* the submit response is a success whose JSON payload has neither job_id
\* nor id
NoJobIdIn(o) ==
    /\ o.kind = "response"
    /\ Ok(o)
    /\ o.body.json_ok
    /\ o.body.job_id = ""
    /\ o.body.id = ""

\* C31: when the payload of a successful submit response has neither
\* job_id nor id, generate_image raises the contract error with that
\* payload and no status request is made; a status request is made only
\* after a successful submit response that carried the identifier asked
\* for.
C31_NoStatusRequestWithoutJobId ==
    job.entry = "generate_image"
    => /\ \A k \in 1..Len(job.responses) :
              NoJobIdIn(job.responses[k])
              => /\ job.pc = "raised"
                 /\ job.raised = Error("RuntimeError", NoOutcome, job.responses[k].body)
                 /\ job.polls = <<>>
                 /\ job.statuses = <<>>
       /\ (job.polls # <<>> \/ job.pc \in {"poll", "polling", "sleeping"})
          => /\ job.responses # <<>>
             /\ LET created == job.responses[Len(job.responses)]
                IN /\ created.kind = "response"
                   /\ Ok(created)
                   /\ created.body.json_ok
                   /\ job.job_id # ""
                   /\ job.job_id \in {created.body.job_id, created.body.id}
                   /\ created.body.job_id # "" => job.job_id = created.body.job_id

\* C31 witness: a 200 without job_id and id, the contract error raised,
\* no status request made.
C31_Witness ==
    /\ job.entry = "generate_image"
    /\ job.responses # <<>>
    /\ NoJobIdIn(job.responses[Len(job.responses)])
    /\ job.pc = "raised"
    /\ job.raised.type = "RuntimeError"
    /\ job.polls = <<>>

\* the payload polled has the status completed and neither result_url nor
\* url
CompletedNoUrl(last) ==
    /\ last.json_ok
    /\ Strip(Lower(last.status)) = Completed
    /\ last.result_url = ""
    /\ last.url = ""

\* C32: a job observed as completed with neither result_url nor url
\* yields no URL: wait_for_job hands back a result without one and
\* generate_image ends in the contract error carrying the payload; and
\* generate_image returns a URL only when the completed payload carried
\* it, result_url before url.
C32_CompletedWithoutUrlIsFatal ==
    job.entry = "generate_image"
    => /\ CompletedNoUrl(job.last)
          => /\ job.pc = "raised"
             /\ job.raised = Error("RuntimeError", NoOutcome, job.last)
             /\ job.waited.result_url = ""
             /\ job.returned = ""
       /\ job.returned # "" => job.pc = "returned"
       /\ job.pc = "returned"
          => /\ job.returned # ""
             /\ job.last.json_ok
             /\ Strip(Lower(job.last.status)) = Completed
             /\ job.returned = IF job.last.result_url # ""
                               THEN job.last.result_url ELSE job.last.url

\* C32 witness: the job was polled as completed with no URL and the
\* contract error was raised.
C32_Witness ==
    /\ job.entry = "generate_image"
    /\ CompletedNoUrl(job.last)
    /\ Len(job.polls) >= 1
    /\ job.pc = "raised"
    /\ job.raised.type = "RuntimeError"
    /\ job.returned = ""

----------------------------------------------------------------------------
(* Properties of the remote fetch *)

\* C33: the fetch never follows more redirect hops than
\* max_remote_redirects, and a reference whose redirect chain is longer
\* than that resolves to None.
C33_RedirectHopsCapped ==
    requests # <<>>
    => /\ Len(requests) - 1 <= client.max_remote_redirects
       /\ (pc = "done" /\ Len(requests) - 1 > client.max_remote_redirects)
          => result = NoneResult

\* the number of requests made to the URL the fetch ended on
FetchAttempts ==
    Cardinality({ i \in 1..Len(requests) : requests[i] = requests[Len(requests)] })

\* C34: the remote fetch goes through the retry transport: a fetch that
\* ended in a request exception or in a response that is not ok was
\* attempted 1 + max_retries times before the resolver returned None.
C34_FetchRetried ==
    (pc = "done" /\ resp.error # "")
    => /\ result = NoneResult
       /\ FetchAttempts = 1 + Max(0, client.max_retries)

----------------------------------------------------------------------------
(* Properties of the attempt budget of the retry transport *)

\* the outcome is one the transport retries: a request exception or a
\* retryable status
Retried(o) ==
    \/ IsRequestException(o)
    \/ o.kind = "response" /\ o.status \in RetryableStatuses(rt.retry_statuses)

\* C36: request exceptions and retryable statuses draw on one attempt
\* budget: whatever the outcomes of the calls, at most max_retries + 1
\* calls are made, every call but the last ended in a request exception or
\* a retryable status and was followed by exactly one sleep, no sleep
\* follows the last call, and the call ends with what its last call did:
\* that response returned, or that exception raised.
C36_SharedAttemptBudget ==
    rt.pc # "idle"
    => LET n == Len(rt.calls)
       IN /\ n <= Max(0, rt.max_retries + 1)
          /\ \A i \in 1..(n - 1) : Retried(rt.calls[i])
          /\ \A i \in 1..Len(rt.sleeps) : rt.sleeps[i].attempt = i - 1
          /\ rt.pc = "loop" => Len(rt.sleeps) = n
          /\ rt.pc = "sleep" => n >= 1 /\ Len(rt.sleeps) = n - 1 /\ Retried(rt.calls[n])
          /\ rt.pc \in {"returned", "raised"} => Len(rt.sleeps) = Max(0, n - 1)
          /\ rt.pc = "returned"
             => /\ n >= 1
                /\ rt.calls[n].kind = "response"
                /\ rt.returned = rt.calls[n]
          /\ (rt.pc = "raised" /\ n >= 1)
             => /\ rt.calls[n].kind = "exception"
                /\ rt.raised = rt.calls[n]
                /\ rt.raised_at = n
          /\ (rt.pc = "raised" /\ n = 0) => rt.max_retries < 0

\* C36 witness: a call of three attempts in which a request exception and
\* a retryable status both occurred before the last attempt ended it, with
\* two sleeps.
C36_Witness ==
    /\ rt.pc \in {"returned", "raised"}
    /\ rt.max_retries = 2
    /\ Len(rt.calls) = 3
    /\ \E i, k \in 1..2 :
           /\ IsRequestException(rt.calls[i])
           /\ rt.calls[k].kind = "response"
    /\ Len(rt.sleeps) = 2

\* the stream was cut at a chunk: the call is over, no exception was met
\* and part of the body is unread
StreamCut == pc = "done" /\ resp.error = "" /\ resp.body # <<>>

\* C35: the bytes buffered while streaming never exceed max_payload_bytes:
\* the buffer holds exactly the chunks counted in the running total, and a
\* stream that was cut was cut at the first chunk that brings the total
\* above the cap, with that chunk and the rest left unread and None
\* returned.
C35_StreamedSizeBound ==
    /\ buf.total <= client.max_payload_bytes
    /\ Len(Concat(buf.chunks)) = buf.total
    /\ StreamCut
       => /\ result = NoneResult
          /\ buf.total + Len(Head(resp.body)) > client.max_payload_bytes

\* C35 witness: a chunk was buffered, the next one would pass the cap, the
\* stream was cut with that chunk and a later one unread, None returned.
C35_Witness ==
    /\ StreamCut
    /\ buf.chunks # <<>>
    /\ Len(resp.body) >= 2
    /\ buf.total + Len(Head(resp.body)) > client.max_payload_bytes
    /\ result = NoneResult

----------------------------------------------------------------------------
(* Properties of the poller after a terminal status or a failed request *)

\* the status, as wait_for_job compares it, is terminal
Terminal(status) ==
    Strip(Lower(status)) \in {Completed} \cup FailedStatuses

\* C37: a terminal status is the last thing wait_for_job observes: only
\* the last status observed can be terminal, and once it is the call is
\* over with no status request pending or made after it and no sleep after
\* it (one sleep followed each earlier status, none this one).
C37_TerminalStatusAbsorbing ==
    (job.entry = "wait_for_job" /\ job.statuses # <<>>)
    => LET n == Len(job.statuses)
       IN /\ \A k \in 1..(n - 1) : ~Terminal(job.statuses[k])
          /\ Terminal(job.statuses[n])
             => /\ job.pc \in {"returned", "raised"}
                /\ rt.pc = "idle"
                /\ Len(job.polls) = n
                /\ job.sleeps = n - 1

\* C37 witness: in-progress statuses, then a terminal one after which the
\* call is over.
C37_Witness ==
    /\ job.entry = "wait_for_job"
    /\ Len(job.statuses) >= 2
    /\ Terminal(job.statuses[Len(job.statuses)])
    /\ Strip(Lower(job.statuses[Len(job.statuses)])) # Completed
    /\ job.pc = "raised"
    /\ job.sleeps = Len(job.statuses) - 1

\* a status request of wait_for_job has just ended in an exception of the
\* transport or in a response that is not a success
StatusRequestFailed ==
    /\ job.entry = "wait_for_job"
    /\ job.pc = "polling"
    /\ rt.pc \in {"returned", "raised"}
    /\ (rt.pc = "raised" \/ ~Ok(rt.returned))

\* C38: when a status request ends in a response that is not a success
\* (whatever the transport retried before) or in an exception of the
\* transport, the next step of wait_for_job raises that error: the HTTP
\* error of that response or that exception, never the timeout error, with
\* no further status request and no sleep; and a call that has raised does
\* nothing more.
C38_FailedStatusRequestRaisedAtOnce ==
    [][ /\ StatusRequestFailed
           => \/ job' = job
              \/ /\ job'.pc = "raised"
                 /\ job'.raised.type # "TimeoutError"
                 /\ job'.raised.type = IF rt.pc = "raised" THEN rt.raised.type
                                       ELSE "HTTPError"
                 /\ rt.pc = "returned" => job'.raised.response = rt.returned
                 /\ job'.polls = job.polls
                 /\ job'.sleeps = job.sleeps
                 /\ rt'.pc = "idle"
        /\ job.pc = "raised" => job' = job ]_vars

\* C38 witness: a status request was answered 503 before the deadline and
\* the call ended with the HTTP error of that response.
C38_Witness ==
    /\ job.entry = "wait_for_job"
    /\ job.pc = "raised"
    /\ job.raised.type = "HTTPError"
    /\ job.raised.response.status = 503
    /\ Len(job.polls) >= 2
    /\ now < job.deadline

----------------------------------------------------------------------------
(* Properties of the disable-inline-fallback flag *)

\* C39: with SOCICLAW_DISABLE_IMAGE_DATA_URL_FALLBACK set, create_job
\* submits the original payload only: whatever the image reference, no
\* submitted payload carries image_data_url.
C39_FlagDisablesInlineFallback ==
    (job.entry = "generate_image" /\ env.disable_fallback)
    => /\ Len(job.submissions) <= 1
       /\ \A k \in 1..Len(job.submissions) :
              /\ job.submissions[k] = BasePayload(job.args)
              /\ job.submissions[k].image_data_url = NoneResult

====
